---- MODULE Spec2Model ----
(***************************************************************************)
(* The session loop of the Google Shopping browse automation               *)
(* (runShoppingSession and the helpers it calls), as a state machine.      *)
(* Every awaited browser operation is one step; its outcome (success,      *)
(* rejection or timeout, the value read) is chosen by the environment.     *)
(***************************************************************************)
EXTENDS Integers, Sequences, FiniteSets, TLC

\* ------------------------------------------------------------------ bounds

\* Largest --max-queries a modelled run is started with.
MaxQueriesCfg == 2
\* Largest --max-pages-per-query.
MaxPagesCfg == 2
\* Largest --max-scrolls-per-page.
MaxScrollsCfg == 3
\* Largest --max-product-opens-per-query.
MaxOpensCfg == 2
\* rng() returns u / RngDen for u in 0 .. RngDen-1.
RngDen == 3
\* Pages already open in the browser context when the session starts.
MaxPreexisting == 1
\* Pages the context holds at most (a click opens no further tab beyond it).
MaxTabs == 2
\* Largest number of product links a results page exposes.
MaxLinks == 1
\* randomInt and jitter are called with bounds k/2, k in -MaxHalf .. MaxHalf.
MaxHalf == 10
\* Longest collection randomChoice is called with.
MaxItems == 3
\* Longest command line (strings after the script name).
MaxArgs == 2
\* Entries of a vocabulary a generator in an unknown state is followed to.
MaxVocab == 1
\* Most lines of a seed file.
MaxSeedLines == 2
\* nextQuery() calls made on a Query Source.
MaxGenQueries == 2

\* ------------------------------------------------------- program constants

\* openRandomProduct picks among at most the first 20 links.
PickLimitCap == 20

\* ----------------------------------------------------------------- helpers

Max(a, b) == IF a >= b THEN a ELSE b

Min(a, b) == IF a <= b THEN a ELSE b

\* The values rng() can return, as numerators over RngDen: u / RngDen in [0,1).
Draws == 0 .. (RngDen - 1)

\* Math.ceil and Math.floor of the number h / 2.
MathCeil(h) == (h + 1) \div 2

MathFloor(h) == h \div 2

\* randomInt without the test max < min.
randomIntWithoutEmptyRange(u, min, max) == ((u * (max - min + 1)) \div RngDen) + min

\* randomInt(rng, min, max) for integer bounds, rng() = u / RngDen.
randomInt(u, min, max) ==
  IF max < min THEN min ELSE ((u * (max - min + 1)) \div RngDen) + min

\* The rng() calls one randomInt(rng, min, max) makes.
randomIntDraws(min, max) == IF max < min THEN 0 ELSE 1

\* The query texts the Query Source hands out.
Queries == {"a", "b"}

\* The page runShoppingSession opens; the other pages of the context are
\* "preexisting" (open before it) or "popup" (opened by a product click).
SessionPage == "session"

\* Catches with the .catch of page.goBack(...) left out.
CatchesWithoutGoBack ==
  { "rejectVisible", "rejectClick", "acceptVisible", "acceptClick", "innerText",
    "count", "scrollIntoView", "waitForEvent", "waitForNavigation", "click",
    "waitForLoadState", "close", "bringToFront",
    "nextVisible", "nextNavigation", "nextClick", "pageClose" }

\* Awaited operations whose rejection is swallowed where they are awaited
\* (.catch(...) or Promise.allSettled).
Catches ==
  { "rejectVisible", "rejectClick", "acceptVisible", "acceptClick", "innerText",
    "count", "scrollIntoView", "waitForEvent", "waitForNavigation", "click",
    "waitForLoadState", "close", "bringToFront", "goBack",
    "nextVisible", "nextNavigation", "nextClick", "pageClose" }

\* Whether awaited operation op, settling as r, throws into the caller.
Raises(op, r) == r = "fail" /\ op \notin Catches

\* x.catch(() => fallback): the value the await yields.
Caught(r, fallback) == IF r = "fail" THEN fallback ELSE r

\* ------------------------------------------------------------ configuration

\* defaultConfig(): the session-shape fields of the Run Configuration.
defaultConfig ==
  [ maxQueries |-> 100,
    minDwellMs |-> 1000,
    maxDwellMs |-> 5000,
    minBetweenQueriesMs |-> 7000,
    maxBetweenQueriesMs |-> 15000,
    maxProductOpensPerQuery |-> 2,
    maxScrollsPerPage |-> 8,
    maxPagesPerQuery |-> 2 ]

\* The Run Configurations a session is started with: defaultConfig() with the
\* count fields overridden from the command line (coerceInt accepts any
\* integer, negative ones included).
Configs ==
  { [defaultConfig EXCEPT !.maxQueries = q, !.maxPagesPerQuery = g,
                          !.maxScrollsPerPage = sc, !.maxProductOpensPerQuery = o] :
      q \in -1 .. MaxQueriesCfg, g \in 0 .. MaxPagesCfg,
      sc \in {1, MaxScrollsCfg}, o \in {-1, MaxOpensCfg} }

\* -------------------------------------------------------------------- state

VARIABLES
  cfg,            \* config: RunConfig
  pages,          \* context.pages(), oldest first
  pc,             \* the statement the session is suspended at
  i,              \* runShoppingSession: loop index
  query,          \* runShoppingSession: const query
  err,            \* the value thrown into the catch of runShoppingSession
  events,         \* the lines log() has printed, oldest first
  pagesToBrowse,  \* browseShoppingForQuery: const pagesToBrowse
  p,              \* browseShoppingForQuery: page loop index
  scrolls,        \* browseShoppingForQuery: const scrolls (humanScroll: steps)
  scrollI,        \* humanScroll: loop index
  productOpens,   \* browseShoppingForQuery: const productOpens
  openI,          \* browseShoppingForQuery: product loop index
  scrollSteps,    \* history: wheel events and pauses of the humanScroll call in progress or just returned
  idx,            \* openRandomProduct: const idx (-1 outside the call)
  clicked,        \* what the product-link click did to the browser
  popup,          \* openRandomProduct: const popup
  openDraws,      \* history: rng() calls made by the openRandomProduct call in progress or just returned
  last,           \* history: the step taken last
  firsts,         \* history: kinds of step of the current query in order of first occurrence, up to its first browsing step
  initBlock,      \* history: outcome of the current query's first block check
  pagesBrowsed,   \* history: humanScroll calls of the current query
  nextAttempts,   \* history: next-page clicks of the current query
  noneAtPage,     \* history: pagesBrowsed when openRandomProduct last returned false (0: not yet)
  consent,        \* history: what the maybeHandleConsent call in progress or just returned saw and clicked
  argv,           \* main: process.argv.slice(2), each string a sequence of symbols
  context,        \* main: the browser context, "open" or "closed"
  call,           \* a call of a humanize.ts function: its name and arguments
  ret,            \* what that call returned or threw
  sources,        \* the Query Sources built, each with the templateQuery call it is in
  rngs,           \* the generators made by mulberry32: the state a of each
  waits           \* openRandomProduct: popupPromise, navPromise and the click

sessionVars == <<cfg, pages, i, query, err, events>>

browseVars == <<pagesToBrowse, p, scrolls, scrollI, productOpens, openI, scrollSteps>>

openVars == <<idx, clicked, popup, openDraws>>

historyVars == <<firsts, initBlock, pagesBrowsed, nextAttempts, noneAtPage, consent>>

\* The state outside runShoppingSession.
outerVars == <<argv, context, call, ret, sources, rngs, waits>>

vars == <<pc, sessionVars, browseVars, openVars, last, historyVars, outerVars>>

\* One step of the history: the operation, what it yielded and the awaited
\* operations that failed in it.
StepWith(op, res, failed, args) ==
  [op |-> op, res |-> res, failed |-> failed, args |-> args]

Step(op, res, failed) == StepWith(op, res, failed, <<>>)

\* No wheel event, no pause.
NoScrollSteps == [wheels |-> 0, pauses |-> 0]

\* Nothing seen or clicked by maybeHandleConsent.
NoConsent == [reject |-> "none", clicks |-> <<>>]

Failed(op, r) == IF r = "fail" THEN {op} ELSE {}

Range(sq) == {sq[n] : n \in 1 .. Len(sq)}

\* The history up to the first scroll, product open or next-page click.
Note(kind) ==
  IF kind \in Range(firsts) \/ Len(firsts) > 4 THEN firsts ELSE Append(firsts, kind)

\* An exception propagates to the try/catch of runShoppingSession.
Throw(e) == pc' = "catch" /\ err' = e

Goes(next) == pc' = next /\ err' = err

\* await op, settling as r: throw if it rejects uncaught, else go on.
Await(op, r, next) == IF Raises(op, r) THEN Throw(op) ELSE Goes(next)

Settles == {"ok", "fail"}

\* browseShoppingForQuery has returned or thrown: its locals, and those of the
\* functions it called, are gone.
LocalsGone ==
  /\ pagesToBrowse' = 0 /\ p' = 0 /\ scrolls' = 0 /\ scrollI' = 0
  /\ productOpens' = 0 /\ openI' = 0
  /\ scrollSteps' = NoScrollSteps
  /\ idx' = -1 /\ clicked' = "none" /\ popup' = "null"

Visibility == {"true", "false", "fail"}

\* No command line read, the browser context launched.
MainIdle == argv = <<>> /\ context = "open"

NoCall == [fn |-> "none"]

NoRet == [threw |-> "none"]

\* No humanize.ts function called on its own.
CallsIdle == call = NoCall /\ ret = NoRet

\* No Query Source built.
SourcesIdle == sources = <<>> /\ rngs = <<>>

\* openRandomProduct not at its waits: neither wait armed, no click issued,
\* nothing the browser has yet to do for a click, no event gone unobserved.
NoWaits ==
  [popup |-> "unarmed", nav |-> "unarmed", click |-> "none", effect |-> "none", missed |-> {}]

\* runShoppingSession before its first statement: no query, no event, no local.
SessionFresh ==
  /\ i = 0
  /\ query = ""
  /\ err = "none"
  /\ events = <<>>
  /\ pagesToBrowse = 0 /\ p = 0 /\ scrolls = 0 /\ scrollI = 0
  /\ productOpens = 0 /\ openI = 0
  /\ scrollSteps = NoScrollSteps
  /\ idx = -1 /\ clicked = "none" /\ popup = "null" /\ openDraws = 0
  /\ last = Step("launch", "ok", {})
  /\ firsts = <<>> /\ initBlock = "none"
  /\ pagesBrowsed = 0 /\ nextAttempts = 0 /\ noneAtPage = 0
  /\ consent = NoConsent
  /\ waits = NoWaits

\* runShoppingSession(context, config, querySource, rng) is called.
Init ==
  /\ cfg \in Configs
  /\ pages \in {<<>>} \cup [1 .. MaxPreexisting -> {"preexisting"}]
  /\ pc = "newPage"
  /\ SessionFresh
  /\ MainIdle /\ CallsIdle /\ SourcesIdle

\* ------------------------------------------------------- runShoppingSession

\* ForQueriesPc with the loop test i <= config.maxQueries.
ForQueriesPcInclusive(n) == IF n <= cfg.maxQueries THEN "nextQuery" ELSE "pageClose"

\* for (let i = 0; i < config.maxQueries; i++): where the loop goes with i = n.
ForQueriesPc(n) == IF n < cfg.maxQueries THEN "nextQuery" ELSE "pageClose"

\* const page = await context.newPage(); then the first loop test.
NewPage ==
  /\ pc = "newPage"
  /\ pages' = Append(pages, SessionPage)
  /\ pc' = ForQueriesPc(i)
  /\ last' = Step("newPage", "ok", {})
  /\ UNCHANGED <<outerVars, cfg, i, query, err, events, browseVars, openVars, historyVars>>

\* const query = querySource.nextQuery();
NextQuery ==
  /\ pc = "nextQuery"
  /\ \E q \in Queries : query' = q
  /\ pc' = "query_start"
  /\ last' = Step("nextQuery", "ok", {})
  /\ UNCHANGED <<outerVars, cfg, pages, i, err, events, browseVars, openVars, historyVars>>

\* browseShoppingForQuery: log("query_start", { query, url });
LogQueryStart ==
  /\ pc = "query_start"
  /\ events' = Append(events, [event |-> "query_start", query |-> query])
  /\ pc' = "goto"
  /\ last' = Step("query_start", "ok", {})
  /\ firsts' = <<"query_start">>
  /\ initBlock' = "none"
  /\ pagesBrowsed' = 0 /\ nextAttempts' = 0 /\ noneAtPage' = 0
  /\ consent' = NoConsent
  /\ UNCHANGED <<outerVars, cfg, pages, i, query, err, browseVars, openVars>>

\* await page.goto(url, ...): not caught.
Goto ==
  /\ pc = "goto"
  /\ \E r \in Settles :
       /\ Await("goto", r, "rejectVisible")
       /\ last' = Step("goto", r, Failed("goto", r))
  /\ firsts' = Note("goto")
  /\ UNCHANGED <<outerVars, cfg, pages, i, query, events, browseVars, openVars,
                 initBlock, pagesBrowsed, nextAttempts, noneAtPage, consent>>

\* ------------------------------------------------------- maybeHandleConsent

\* if (await reject.isVisible().catch(() => false))
RejectVisible ==
  /\ pc = "rejectVisible"
  /\ \E r \in Visibility :
       /\ Await("rejectVisible", r,
                IF Caught(r, "false") = "true" THEN "rejectClick" ELSE "acceptVisible")
       /\ last' = Step("rejectVisible", Caught(r, "false"), Failed("rejectVisible", r))
       /\ consent' = [consent EXCEPT !.reject = Caught(r, "false")]
  /\ firsts' = Note("consent")
  /\ UNCHANGED <<outerVars, cfg, pages, i, query, events, browseVars, openVars,
                 initBlock, pagesBrowsed, nextAttempts, noneAtPage>>

\* AfterRejectPc with the return after the reject click left out.
AfterRejectFallsThrough == "acceptVisible"

\* maybeHandleConsent returns after the reject click: on to the block check.
AfterRejectPc == "isBlocked"

\* await reject.click({ timeout: 5_000 }).catch(() => undefined); return;
RejectClick ==
  /\ pc = "rejectClick"
  /\ \E r \in Settles :
       /\ Await("rejectClick", r, AfterRejectPc)
       /\ last' = Step("rejectClick", r, Failed("rejectClick", r))
  /\ consent' = [consent EXCEPT !.clicks = Append(@, "reject")]
  /\ UNCHANGED <<outerVars, cfg, pages, i, query, events, browseVars, openVars,
                 firsts, initBlock, pagesBrowsed, nextAttempts, noneAtPage>>

\* if (await accept.isVisible().catch(() => false))
AcceptVisible ==
  /\ pc = "acceptVisible"
  /\ \E r \in Visibility :
       /\ Await("acceptVisible", r,
                IF Caught(r, "false") = "true" THEN "acceptClick" ELSE "isBlocked")
       /\ last' = Step("acceptVisible", Caught(r, "false"), Failed("acceptVisible", r))
  /\ UNCHANGED <<outerVars, cfg, pages, i, query, events, browseVars, openVars, historyVars>>

\* await accept.click({ timeout: 5_000 }).catch(() => undefined);
AcceptClick ==
  /\ pc = "acceptClick"
  /\ \E r \in Settles :
       /\ Await("acceptClick", r, "isBlocked")
       /\ last' = Step("acceptClick", r, Failed("acceptClick", r))
  /\ consent' = [consent EXCEPT !.clicks = Append(@, "accept")]
  /\ UNCHANGED <<outerVars, cfg, pages, i, query, events, browseVars, openVars,
                 firsts, initBlock, pagesBrowsed, nextAttempts, noneAtPage>>

\* ---------------------------------------------------------------- isBlocked

\* What page.locator("body").innerText() settles as: the page's text, or a
\* rejection.
PageTexts == {"", "shopping results", "Our systems have detected unusual traffic"}

\* The block-phrase pattern of isBlocked, tested on a page text.
BlockPhrase(text) == text = "Our systems have detected unusual traffic"

\* isBlocked(page), the URL holding "/sorry/" or not and innerText settling
\* as r: what it returns ("true", "false"), or "throw", and what failed in it.
isBlocked(sorry, r) ==
  IF sorry THEN [res |-> "true", failed |-> {}]
  ELSE IF Raises("innerText", r) THEN [res |-> "throw", failed |-> {"innerText"}]
  ELSE [res |-> IF BlockPhrase(Caught(r, "")) THEN "true" ELSE "false",
        failed |-> Failed("innerText", r)]

\* ThrowIfBlocked with the result of isBlocked ignored.
ThrowIfBlockedIgnored(b, next) ==
  IF b.res = "throw" THEN Throw("innerText") ELSE Goes(next)

\* if (await isBlocked(page)) throw new Error("Blocked/captcha detected ...");
\* the outcome b of isBlocked, going on at next when not blocked.
ThrowIfBlocked(b, next) ==
  IF b.res = "throw" THEN Throw("innerText")
  ELSE IF b.res = "true" THEN Throw("Blocked")
  ELSE Goes(next)

\* browseShoppingForQuery: the block check after consent handling.
CheckBlockedInitial ==
  /\ pc = "isBlocked"
  /\ \E sorry \in BOOLEAN, r \in PageTexts \cup {"fail"} :
       LET b == isBlocked(sorry, r) IN
         /\ ThrowIfBlocked(b, "pagesToBrowse")
         /\ last' = Step("isBlocked", b.res, b.failed)
         /\ initBlock' = IF b.res = "false" THEN "clear" ELSE "blocked"
  /\ firsts' = Note("isBlocked")
  /\ consent' = NoConsent
  /\ UNCHANGED <<outerVars, cfg, pages, i, query, events, browseVars, openVars,
                 pagesBrowsed, nextAttempts, noneAtPage>>

\* --------------------------------------- browseShoppingForQuery: page loop

\* PageLoopPc with the loop test p <= pagesToBrowse.
PageLoopPcInclusive(n, total) == IF n <= total THEN "scrolls" ELSE "endDwell"

\* for (let p = 0; p < pagesToBrowse; p++): where the loop goes with p = n.
PageLoopPc(n, total) == IF n < total THEN "scrolls" ELSE "endDwell"

\* ScrollLoopPc with the loop test i <= steps.
ScrollLoopPcInclusive(n, steps) == IF n <= steps THEN "wheel" ELSE "productOpens"

\* humanScroll: for (let i = 0; i < steps; i++): where it goes with i = n.
ScrollLoopPc(n, steps) == IF n < steps THEN "wheel" ELSE "productOpens"

\* OpenLoopPc with the block check made before the first product open only.
OpenLoopPcChecksOnce(n, total) ==
  IF n < total THEN (IF n = 0 THEN "isBlockedPre" ELSE "count") ELSE "nextPageTest"

\* for (let i = 0; i < productOpens; i++): where the loop goes with i = n.
OpenLoopPc(n, total) == IF n < total THEN "isBlockedPre" ELSE "nextPageTest"

\* HasNextPage with the test p < pagesToBrowse.
HasNextPageOffByOne(n, total) == n < total

\* if (p < pagesToBrowse - 1)
HasNextPage(n, total) == n < total - 1

\* const pagesToBrowse = randomInt(rng, 1, Math.max(1, config.maxPagesPerQuery));
ChoosePagesToBrowse ==
  /\ pc = "pagesToBrowse"
  /\ \E u \in Draws :
       /\ pagesToBrowse' = randomInt(u, 1, Max(1, cfg.maxPagesPerQuery))
       /\ pc' = PageLoopPc(0, pagesToBrowse')
  /\ p' = 0
  /\ last' = Step("pagesToBrowse", "ok", {})
  /\ UNCHANGED <<outerVars, sessionVars, scrolls, scrollI, productOpens, openI, scrollSteps,
                 openVars, historyVars>>

\* const scrolls = randomInt(rng, 2, Math.max(2, config.maxScrollsPerPage));
\* and the call of humanScroll(page, rng, scrolls) up to its first loop test.
ChooseScrolls ==
  /\ pc = "scrolls"
  /\ \E u \in Draws :
       /\ scrolls' = randomInt(u, 2, Max(2, cfg.maxScrollsPerPage))
       /\ pc' = ScrollLoopPc(0, scrolls')
  /\ scrollI' = 0
  /\ scrollSteps' = NoScrollSteps
  /\ pagesBrowsed' = pagesBrowsed + 1
  /\ last' = Step("scrolls", "ok", {})
  /\ UNCHANGED <<outerVars, sessionVars, pagesToBrowse, p, productOpens, openI, openVars,
                 firsts, initBlock, nextAttempts, noneAtPage, consent>>

\* humanScroll: const dy = randomInt(rng, 320, 980); await page.mouse.wheel(0, dy);
\* not caught.
Wheel ==
  /\ pc = "wheel"
  /\ \E u \in Draws, r \in Settles :
       /\ Await("wheel", r, "scrollJitter")
       /\ last' = StepWith("wheel", r, Failed("wheel", r), <<0, randomInt(u, 320, 980)>>)
  /\ scrollSteps' = [scrollSteps EXCEPT !.wheels = @ + 1]
  /\ firsts' = Note("scroll")
  /\ UNCHANGED <<outerVars, cfg, pages, i, query, events, pagesToBrowse, p, scrolls, scrollI,
                 productOpens, openI, openVars,
                 initBlock, pagesBrowsed, nextAttempts, noneAtPage, consent>>

\* humanScroll: await jitter(rng, 250, 900); i++
ScrollJitter ==
  /\ pc = "scrollJitter"
  /\ scrollI' = scrollI + 1
  /\ pc' = ScrollLoopPc(scrollI + 1, scrolls)
  /\ \E u \in Draws :
       last' = StepWith("scrollJitter", "ok", {}, <<randomInt(u, 250, 900)>>)
  /\ scrollSteps' = [scrollSteps EXCEPT !.pauses = @ + 1]
  /\ UNCHANGED <<outerVars, sessionVars, pagesToBrowse, p, scrolls, productOpens, openI,
                 openVars, historyVars>>

\* const productOpens = randomInt(rng, 0, Math.max(0, config.maxProductOpensPerQuery));
ChooseProductOpens ==
  /\ pc = "productOpens"
  /\ \E u \in Draws :
       /\ productOpens' = randomInt(u, 0, Max(0, cfg.maxProductOpensPerQuery))
       /\ pc' = OpenLoopPc(0, productOpens')
  /\ openI' = 0
  /\ last' = Step("productOpens", "ok", {})
  /\ UNCHANGED <<outerVars, sessionVars, pagesToBrowse, p, scrolls, scrollI, scrollSteps,
                 openVars, historyVars>>

\* if (await isBlocked(page)) throw ...: the block check before a product open.
CheckBlockedBeforeOpen ==
  /\ pc = "isBlockedPre"
  /\ \E sorry \in BOOLEAN, r \in PageTexts \cup {"fail"} :
       LET b == isBlocked(sorry, r) IN
         /\ ThrowIfBlocked(b, "count")
         /\ last' = Step("isBlocked", b.res, b.failed)
  /\ UNCHANGED <<outerVars, cfg, pages, i, query, events, browseVars, openVars, historyVars>>

\* -------------------------------------------------------- openRandomProduct

\* What productLinks.count() settles as.
LinkCounts == (0 .. MaxLinks) \cup {PickLimitCap + 1}

\* NoCandidates with the test count < 0.
NoCandidatesStrict(c) == c < 0

\* if (count <= 0) return false;
NoCandidates(c) == c <= 0

\* NothingOpenedPc with continue in place of break.
NothingOpenedContinues == "returnJitter"

\* if (!opened) break;  where the product loop goes when nothing was opened.
NothingOpenedPc == "nextPageTest"

\* const count = await productLinks.count().catch(() => 0);
\* if (count <= 0) return false;
\* const idx = randomInt(rng, 0, Math.min(count, 20) - 1);
CountLinks ==
  /\ pc = "count"
  /\ \E r \in Settles, n \in LinkCounts :
       LET c == IF r = "fail" THEN 0 ELSE n IN
         /\ r = "fail" => n = 0
         /\ last' = Step("count", ToString(c), Failed("count", r))
         /\ IF Raises("count", r)
              THEN Throw("count") /\ UNCHANGED <<idx, openDraws, noneAtPage>>
            ELSE IF NoCandidates(c)
              THEN /\ Goes(NothingOpenedPc)
                   /\ noneAtPage' = pagesBrowsed
                   /\ openDraws' = 0
                   /\ UNCHANGED idx
            ELSE /\ Goes("scrollIntoView")
                 /\ \E u \in Draws : idx' = randomInt(u, 0, Min(c, PickLimitCap) - 1)
                 /\ openDraws' = randomIntDraws(0, Min(c, PickLimitCap) - 1)
                 /\ UNCHANGED noneAtPage
  /\ firsts' = Note("open")
  /\ UNCHANGED <<outerVars, cfg, pages, i, query, events, browseVars, clicked, popup,
                 initBlock, pagesBrowsed, nextAttempts, consent>>

\* await link.scrollIntoViewIfNeeded({ timeout: 5_000 }).catch(() => undefined);
ScrollIntoView ==
  /\ pc = "scrollIntoView"
  /\ \E r \in Settles :
       /\ Await("scrollIntoView", r, "openJitter")
       /\ last' = Step("scrollIntoView", r, Failed("scrollIntoView", r))
  /\ UNCHANGED <<outerVars, cfg, pages, i, query, events, browseVars, openVars, historyVars>>

\* await jitter(rng, 200, 900);
OpenJitter ==
  /\ pc = "openJitter"
  /\ pc' = "click"
  /\ openDraws' = openDraws + randomIntDraws(200, 900)
  /\ last' = Step("jitter", "ok", {})
  /\ UNCHANGED <<outerVars, sessionVars, browseVars, idx, clicked, popup, historyVars>>

\* What link.click() does: it rejects, or it resolves and the browser opens
\* a new tab, navigates the page in place, or does neither.
ClickEffects == {"fail", "nothing", "popup", "navigated"}

\* The two waits are armed, then
\* await link.click({ timeout: 6_000, button: "left" }).catch(() => undefined);
Click ==
  /\ pc = "click"
  /\ \E r \in ClickEffects :
       /\ r = "popup" => Len(pages) < MaxTabs
       /\ clicked' = r
       /\ pages' = IF r = "popup" THEN Append(pages, "popup") ELSE pages
       /\ Await("click", r, "awaitWaits")
       /\ last' = Step("click", r, Failed("click", r))
  /\ UNCHANGED <<outerVars, cfg, i, query, events, browseVars, idx, popup, openDraws, historyVars>>

\* ReportsOpened with true returned only if the click opened something.
ReportsOpenedIfSomethingOpened(c) == c \in {"popup", "navigated"}

\* return true;  after the waits, whatever the click did (c).
ReportsOpened(c) == TRUE

\* const popup = await popupPromise; await navPromise;
\* each wait resolves if its event came and times out (null) otherwise.
AwaitWaits ==
  /\ pc = "awaitWaits"
  /\ popup' = IF clicked = "popup" THEN "popup" ELSE "null"
  /\ Goes(IF popup' # "null" THEN "waitForLoadState"
          ELSE IF ReportsOpened(clicked) THEN "dwell" ELSE NothingOpenedPc)
  /\ last' = Step("awaitWaits", popup',
                  (IF clicked = "popup" THEN {} ELSE {"waitForEvent"})
                    \cup (IF clicked = "navigated" THEN {} ELSE {"waitForNavigation"}))
  /\ UNCHANGED <<outerVars, cfg, pages, i, query, events, browseVars, idx, clicked, openDraws,
                 historyVars>>

\* await popup.waitForLoadState("domcontentloaded").catch(() => undefined);
\* return true;
WaitForLoadState ==
  /\ pc = "waitForLoadState"
  /\ \E r \in Settles :
       /\ Await("waitForLoadState", r, "dwell")
       /\ last' = Step("waitForLoadState", r, Failed("waitForLoadState", r))
  /\ UNCHANGED <<outerVars, cfg, pages, i, query, events, browseVars, openVars, historyVars>>

\* opened is true: await jitter(rng, config.minDwellMs, config.maxDwellMs);
Dwell ==
  /\ pc = "dwell"
  /\ pc' = "returnFromProduct"
  /\ idx' = -1 /\ clicked' = "none" /\ popup' = "null" /\ openDraws' = 0
  /\ last' = StepWith("dwell", "ok", {}, <<cfg.minDwellMs, cfg.maxDwellMs>>)
  /\ UNCHANGED <<outerVars, sessionVars, browseVars, historyVars>>

\* -------------------------------------------------------- returnFromProduct

\* ClosesNewest without the test newest !== page.
ClosesNewestAnyPage(ps) == Len(ps) > 1

\* pages.length > 1 and newest !== page, for pages = context.pages().
ClosesNewest(ps) == Len(ps) > 1 /\ ps[Len(ps)] # SessionPage

\* WithoutNewest with pages[0] taken for the newest page.
WithoutOldest(ps) == SubSeq(ps, 2, Len(ps))

\* const newest = pages[pages.length - 1]: the pages left once it is closed.
WithoutNewest(ps) == SubSeq(ps, 1, Len(ps) - 1)

\* await newest.close().catch(() => undefined);
CloseNewest ==
  /\ pc = "returnFromProduct"
  /\ ClosesNewest(pages)
  /\ \E r \in Settles :
       /\ pages' = IF r = "ok" THEN WithoutNewest(pages) ELSE pages
       /\ Await("close", r, "bringToFront")
       /\ last' = Step("close", r, Failed("close", r))
  /\ UNCHANGED <<outerVars, cfg, i, query, events, browseVars, openVars, historyVars>>

\* await page.bringToFront().catch(() => undefined); return;
BringToFront ==
  /\ pc = "bringToFront"
  /\ \E r \in Settles :
       /\ Await("bringToFront", r, "returnJitter")
       /\ last' = Step("bringToFront", r, Failed("bringToFront", r))
  /\ UNCHANGED <<outerVars, cfg, pages, i, query, events, browseVars, openVars, historyVars>>

\* await page.goBack({ timeout: 10_000, ... }).catch(() => undefined);
GoBack ==
  /\ pc = "returnFromProduct"
  /\ ~ClosesNewest(pages)
  /\ \E r \in Settles :
       /\ Await("goBack", r, "returnJitter")
       /\ last' = Step("goBack", r, Failed("goBack", r))
  /\ UNCHANGED <<outerVars, cfg, pages, i, query, events, browseVars, openVars, historyVars>>

\* await jitter(rng, 500, 2_000); i++
ReturnJitter ==
  /\ pc = "returnJitter"
  /\ openI' = openI + 1
  /\ pc' = OpenLoopPc(openI + 1, productOpens)
  /\ last' = StepWith("jitter", "ok", {}, <<500, 2000>>)
  /\ UNCHANGED <<outerVars, sessionVars, pagesToBrowse, p, scrolls, scrollI, productOpens,
                 scrollSteps, openVars, historyVars>>

\* --------------------------------------------------- clickNextPageIfPresent

\* if (p < pagesToBrowse - 1) { const ok = await clickNextPageIfPresent(page);
\* if (!(await next.isVisible().catch(() => false))) return false;  (break)
NextVisible ==
  /\ pc = "nextPageTest"
  /\ HasNextPage(p, pagesToBrowse)
  /\ \E r \in Visibility :
       /\ Await("nextVisible", r,
                IF Caught(r, "false") = "true" THEN "nextClick" ELSE "endDwell")
       /\ last' = Step("nextVisible", Caught(r, "false"), Failed("nextVisible", r))
  /\ UNCHANGED <<outerVars, cfg, pages, i, query, events, browseVars, openVars, historyVars>>

\* p is the last page of the budget: p++ and the loop test.
LastPage ==
  /\ pc = "nextPageTest"
  /\ ~HasNextPage(p, pagesToBrowse)
  /\ p' = p + 1
  /\ pc' = PageLoopPc(p + 1, pagesToBrowse)
  /\ last' = Step("lastPage", "ok", {})
  /\ UNCHANGED <<outerVars, sessionVars, pagesToBrowse, scrolls, scrollI, productOpens, openI,
                 scrollSteps, openVars, historyVars>>

\* await Promise.allSettled([page.waitForNavigation(...), next.click(...)]);
\* return true;
NextClick ==
  /\ pc = "nextClick"
  /\ \E rn \in Settles, rc \in Settles :
       /\ IF Raises("nextNavigation", rn) THEN Throw("nextNavigation")
          ELSE Await("nextClick", rc, "nextJitter")
       /\ last' = Step("nextClick", rc,
                       Failed("nextNavigation", rn) \cup Failed("nextClick", rc))
  /\ nextAttempts' = nextAttempts + 1
  /\ firsts' = Note("next")
  /\ UNCHANGED <<outerVars, cfg, pages, i, query, events, browseVars, openVars,
                 initBlock, pagesBrowsed, noneAtPage, consent>>

\* await jitter(rng, 1_000, 4_000); p++
NextJitter ==
  /\ pc = "nextJitter"
  /\ p' = p + 1
  /\ pc' = PageLoopPc(p + 1, pagesToBrowse)
  /\ last' = Step("jitter", "ok", {})
  /\ UNCHANGED <<outerVars, sessionVars, pagesToBrowse, scrolls, scrollI, productOpens, openI,
                 scrollSteps, openVars, historyVars>>

\* ----------------------------------------------------------- end of a query

\* await jitter(rng, config.minDwellMs, config.maxDwellMs);
EndDwell ==
  /\ pc = "endDwell"
  /\ pc' = "query_end"
  /\ last' = Step("endDwell", "ok", {})
  /\ UNCHANGED <<outerVars, sessionVars, browseVars, openVars, historyVars>>

\* log("query_end", { query });
LogQueryEnd ==
  /\ pc = "query_end"
  /\ events' = Append(events, [event |-> "query_end", query |-> query])
  /\ pc' = "betweenQueries"
  /\ last' = Step("query_end", "ok", {})
  /\ LocalsGone
  /\ UNCHANGED <<outerVars, cfg, pages, i, query, err, openDraws, historyVars>>

\* await jitter(rng, config.minBetweenQueriesMs, config.maxBetweenQueriesMs); i++
BetweenQueries ==
  /\ pc = "betweenQueries"
  /\ i' = i + 1
  /\ pc' = ForQueriesPc(i + 1)
  /\ last' = Step("jitter", "ok", {})
  /\ UNCHANGED <<outerVars, cfg, pages, query, err, events, browseVars, openVars, historyVars>>

\* AfterQueryErrorPc with the break left out: on to the pause and the next query.
AfterQueryErrorContinues == "betweenQueries"

\* catch (err): where the session goes after logging query_error (break).
AfterQueryErrorPc == "pageClose"

\* catch (err) { log("query_error", { query, error: String(err) }); break; }
CatchQueryError ==
  /\ pc = "catch"
  /\ events' = Append(events, [event |-> "query_error", query |-> query, error |-> err])
  /\ pc' = AfterQueryErrorPc
  /\ last' = Step("query_error", err, {})
  /\ LocalsGone
  /\ UNCHANGED <<outerVars, cfg, pages, i, query, err, openDraws, historyVars>>

\* await page.close().catch(() => undefined);  and runShoppingSession returns.
PageClose ==
  /\ pc = "pageClose"
  /\ \E r \in Settles :
       /\ pages' = IF r = "ok"
                     THEN SelectSeq(pages, LAMBDA x : x # SessionPage)
                     ELSE pages
       /\ Await("pageClose", r, "returned")
       /\ last' = Step("pageClose", r, Failed("pageClose", r))
  /\ UNCHANGED <<outerVars, cfg, i, query, events, browseVars, openVars, historyVars>>

\* ------------------------------------------------------------ specification

Next ==
  \/ NewPage \/ NextQuery \/ LogQueryStart \/ Goto
  \/ RejectVisible \/ RejectClick \/ AcceptVisible \/ AcceptClick
  \/ CheckBlockedInitial
  \/ ChoosePagesToBrowse \/ ChooseScrolls \/ Wheel \/ ScrollJitter
  \/ ChooseProductOpens \/ CheckBlockedBeforeOpen
  \/ CountLinks \/ ScrollIntoView \/ OpenJitter \/ Click \/ AwaitWaits
  \/ WaitForLoadState \/ Dwell
  \/ CloseNewest \/ BringToFront \/ GoBack \/ ReturnJitter
  \/ NextVisible \/ LastPage \/ NextClick \/ NextJitter
  \/ EndDwell \/ LogQueryEnd \/ BetweenQueries \/ CatchQueryError \/ PageClose

Spec == Init /\ [][Next]_vars

\* ------------------------------------------- humanize.ts called on its own

\* randomChoice without the test items.length === 0: items[0] of an empty
\* array is undefined.
randomChoiceWithoutEmptyTest(u, items) ==
  LET index == (u * Len(items)) \div RngDen IN
    [ threw |-> "no",
      value |-> IF Len(items) = 0 THEN "undefined" ELSE items[index + 1],
      index |-> index,
      draws |-> 1 ]

\* randomChoice(rng, items), rng() = u / RngDen: what it throws or returns,
\* the index it reads and the rng() calls it makes.
randomChoice(u, items) ==
  IF Len(items) = 0
    THEN [threw |-> "Error: randomChoice: empty array", draws |-> 0]
    ELSE LET index == (u * Len(items)) \div RngDen IN
           [threw |-> "no", value |-> items[index + 1], index |-> index, draws |-> 1]

Halves == -MaxHalf .. MaxHalf

ItemLists == UNION {[1 .. n -> {"x", "y", "z"}] : n \in 0 .. MaxItems}

\* The calls made: the function, the value of the rng() call it may make and
\* its arguments (numbers as halves).
Calls ==
  [fn : {"randomInt", "jitter"}, u : Draws, min : Halves, max : Halves]
    \cup [fn : {"randomChoice"}, u : Draws, items : ItemLists]

HumanizeInit ==
  /\ call \in Calls
  /\ ret = NoRet
  /\ cfg = defaultConfig /\ pages = <<>> /\ pc = "idle"
  /\ SessionFresh /\ MainIdle /\ SourcesIdle

HumanizeUnchanged ==
  UNCHANGED <<pc, sessionVars, browseVars, openVars, last, historyVars,
              argv, context, call, sources, rngs, waits>>

\* randomInt(rng, minInclusive, maxInclusive)
CallRandomInt ==
  /\ call.fn = "randomInt" /\ ret = NoRet
  /\ ret' = [ threw |-> "no",
              value |-> randomInt(call.u, MathCeil(call.min), MathFloor(call.max)),
              draws |-> randomIntDraws(MathCeil(call.min), MathFloor(call.max)) ]
  /\ HumanizeUnchanged

\* jitter(rng, minMs, maxMs): await sleep(randomInt(rng, minMs, maxMs));
CallJitter ==
  /\ call.fn = "jitter" /\ ret = NoRet
  /\ ret' = [ threw |-> "no",
              slept |-> randomInt(call.u, MathCeil(call.min), MathFloor(call.max)) ]
  /\ HumanizeUnchanged

\* randomChoice(rng, items)
CallRandomChoice ==
  /\ call.fn = "randomChoice" /\ ret = NoRet
  /\ ret' = randomChoice(call.u, call.items)
  /\ HumanizeUnchanged

HumanizeNext == CallRandomInt \/ CallJitter \/ CallRandomChoice

HumanizeSpec == HumanizeInit /\ [][HumanizeNext]_vars

\* --------------------------------------------------------------- mulberry32

\* A 32-bit word is <<high, low>>, its two 16-bit halves.

\* x ^ y for x, y below 2^bits.
RECURSIVE BitXor(_, _, _)
BitXor(x, y, bits) ==
  IF bits = 0 THEN 0
  ELSE ((x + y) % 2) + 2 * BitXor(x \div 2, y \div 2, bits - 1)

\* x | y for x, y below 2^bits.
RECURSIVE BitOr(_, _, _)
BitOr(x, y, bits) ==
  IF bits = 0 THEN 0
  ELSE (IF x % 2 = 1 \/ y % 2 = 1 THEN 1 ELSE 0) + 2 * BitOr(x \div 2, y \div 2, bits - 1)

\* a ^ b
Xor32(a, b) == <<BitXor(a[1], b[1], 16), BitXor(a[2], b[2], 16)>>

\* c | a, for c below 2^16
Or32(c, a) == <<a[1], BitOr(c, a[2], 16)>>

\* a >>> n, for 0 < n < 16
Shr32(a, n) == <<a[1] \div 2^n, (a[1] % 2^n) * 2^(16 - n) + a[2] \div 2^n>>

\* (a + b) | 0
Add32(a, b) ==
  <<(a[1] + b[1] + (a[2] + b[2]) \div 65536) % 65536, (a[2] + b[2]) % 65536>>

\* Math.imul(a, b): the low 32 bits of the product.
imul(a, b) ==
  LET MulLow(x, y) == (x * (y % 256) + ((x * (y \div 256)) % 256) * 256) % 65536
      t0 == a[2] * (b[2] % 256)
      t1 == a[2] * (b[2] \div 256)
      low == t0 + (t1 % 256) * 256
      high == (t1 \div 256) + (low \div 65536) + MulLow(a[1], b[2]) + MulLow(a[2], b[1])
  IN <<high % 65536, low % 65536>>

\* One call of the function mulberry32 returns, the generator's state being a:
\* the new state, and the word x of the value x / 4294967296 returned.
mulberry32Next(a) ==
  LET a1 == Add32(a, <<27947, 31221>>)
      t1 == imul(Xor32(a1, Shr32(a1, 15)), Or32(1, a1))
      t2 == Xor32(Add32(t1, imul(Xor32(t1, Shr32(t1, 7)), Or32(61, t1))), t1)
  IN [a |-> a1, x |-> Xor32(t2, Shr32(t2, 14))]

\* mulberry32(seed): a new generator, let a = seed >>> 0.
mulberry32(seed) == [kind |-> "mulberry32", a |-> seed]

\* A generator in a state that is not known: each call of it may return any
\* number in [0, 1).
AnyRng == [kind |-> "any", a |-> <<0, 0>>]

\* Math.floor(rng() * n), rng() having returned x / 4294967296.
FloorTimes(x, n) == (x[1] * n + (x[2] * n) \div 65536) \div 65536

\* What an expression that calls generator g may evaluate to: a set of
\* [val |-> its value, g |-> the generator after it].

\* rng() < percent / 100
Chance(g, percent) ==
  IF g.kind = "any" THEN {[val |-> b, g |-> g] : b \in BOOLEAN}
  ELSE LET d == mulberry32Next(g.a) IN
         { [ val |-> d.x[1] * 100 + (d.x[2] * 100) \div 65536 < percent * 65536,
             g |-> [g EXCEPT !.a = d.a] ] }

\* Math.floor(rng() * n) + 1, n > 0; of a generator in an unknown state the
\* indices up to most are followed.
PickIndex(g, n, most) ==
  IF g.kind = "any" THEN {[val |-> j, g |-> g] : j \in 1 .. Min(n, most)}
  ELSE LET d == mulberry32Next(g.a) IN
         {[val |-> FloorTimes(d.x, n) + 1, g |-> [g EXCEPT !.a = d.a]]}

\* randomChoice(rng, items), items not empty
Pick(g, items) ==
  {[val |-> items[o.val], g |-> o.g] : o \in PickIndex(g, Len(items), MaxVocab)}

\* randomInt(rng, min, max) as a piece of text
IntIn(g, min, max) ==
  IF max < min THEN {[val |-> <<ToString(min)>>, g |-> g]}
  ELSE IF g.kind = "any"
    THEN {[val |-> <<ToString(randomInt(u, min, max))>>, g |-> g] : u \in Draws}
  ELSE LET d == mulberry32Next(g.a) IN
         { [ val |-> <<ToString(FloorTimes(d.x, max - min + 1) + min)>>,
             g |-> [g EXCEPT !.a = d.a] ] }

\* ---------------------------------------------------------- queryGenerator

\* A text is a sequence of pieces: a white-space character, or a run of
\* other characters.
IsSpace(piece) == piece \in {" ", "\t"}

\* undefined
Undefined == <<"<undefined>">>

categories ==
  << <<"wireless", " ", "earbuds">>,
     <<"gaming", " ", "laptop">>,
     <<"4k", " ", "monitor">>,
     <<"robot", " ", "vacuum">>,
     <<"air", " ", "purifier">>,
     <<"standing", " ", "desk">>,
     <<"office", " ", "chair">>,
     <<"running", " ", "shoes">>,
     <<"winter", " ", "jacket">>,
     <<"skin", " ", "care", " ", "serum">>,
     <<"vitamin", " ", "d", " ", "supplement">>,
     <<"protein", " ", "powder">>,
     <<"electric", " ", "toothbrush">>,
     <<"blender">>,
     <<"espresso", " ", "machine">>,
     <<"smartwatch">>,
     <<"phone", " ", "case">>,
     <<"car", " ", "dash", " ", "cam">>,
     <<"tool", " ", "set">>,
     <<"lego", " ", "set">>,
     <<"mechanical", " ", "keyboard">>,
     <<"noise", " ", "cancelling", " ", "headphones">>,
     <<"camping", " ", "tent">>,
     <<"hiking", " ", "backpack">>,
     <<"yoga", " ", "mat">>,
     <<"sunscreen">>,
     <<"electric", " ", "scooter">>,
     <<"cat", " ", "food">>,
     <<"dog", " ", "shampoo">>,
     <<"air", " ", "fryer">>,
     <<"rice", " ", "cooker">>,
     <<"mattress", " ", "topper">>,
     <<"humidifier">>,
     <<"dehumidifier">>,
     <<"printer", " ", "ink">>,
     <<"ssd", " ", "2tb">>,
     <<"router", " ", "wifi", " ", "6e">>,
     <<"smart", " ", "light", " ", "bulbs">>,
     <<"coffee", " ", "grinder">> >>

adjectives ==
  << <<"best">>,
     <<"cheap">>,
     <<"premium">>,
     <<"budget">>,
     <<"top", " ", "rated">>,
     <<"durable">>,
     <<"lightweight">>,
     <<"waterproof">>,
     <<"compact">>,
     <<"new">>,
     <<"refurbished">>,
     <<"eco", " ", "friendly">>,
     <<"quiet">>,
     <<"portable">>,
     <<"high", " ", "performance">> >>

intents ==
  << <<"buy">>,
     <<"deals">>,
     <<"price">>,
     <<"sale">>,
     <<"discount">>,
     <<"free", " ", "shipping">>,
     <<"near", " ", "me">>,
     <<"online">>,
     <<"coupon">>,
     <<"clearance">>,
     <<"bundle">>,
     <<"gift">>,
     <<"student", " ", "discount">> >>

brands ==
  << <<"Samsung">>,
     <<"Apple">>,
     <<"Sony">>,
     <<"LG">>,
     <<"Dell">>,
     <<"HP">>,
     <<"Lenovo">>,
     <<"Nike">>,
     <<"Adidas">>,
     <<"Bosch">>,
     <<"Philips">>,
     <<"Dyson">>,
     <<"Logitech">>,
     <<"Anker">>,
     <<"Asus">>,
     <<"Acer">>,
     <<"Canon">>,
     <<"Nikon">>,
     <<"KitchenAid">>,
     <<"Cuisinart">>,
     <<"Instant", " ", "Pot">>,
     <<"Razer">>,
     <<"Corsair">>,
     <<"New", " ", "Balance">>,
     <<"Puma">> >>

topics ==
  << <<"how", " ", "to", " ", "make", " ", "sourdough", " ", "starter">>,
     <<"why", " ", "do", " ", "cats", " ", "knead", " ", "blankets">>,
     <<"history", " ", "of", " ", "the", " ", "silk", " ", "road">>,
     <<"best", " ", "time", " ", "to", " ", "visit", " ", "iceland">>,
     <<"how", " ", "to", " ", "learn", " ", "piano">>,
     <<"moon", " ", "phases", " ", "calendar">>,
     <<"chess", " ", "opening", " ", "for", " ", "beginners">>,
     <<"what", " ", "is", " ", "photosynthesis">>,
     <<"stoicism", " ", "basics">>,
     <<"meditation", " ", "breathing", " ", "technique">>,
     <<"python", " ", "list", " ", "comprehension">>,
     <<"linux", " ", "fish", " ", "shell", " ", "tips">>,
     <<"how", " ", "to", " ", "fix", " ", "a", " ", "leaky", " ", "faucet">>,
     <<"volcanoes", " ", "around", " ", "the", " ", "world">>,
     <<"recipe", " ", "for", " ", "ramen", " ", "broth">>,
     <<"difference", " ", "between", " ", "espresso", " ", "and", " ", "coffee">>,
     <<"how", " ", "to", " ", "train", " ", "for", " ", "a", " ", "5k">>,
     <<"minimalist", " ", "capsule", " ", "wardrobe">>,
     <<"book", " ", "recommendations", " ", "sci", " ", "fi">>,
     <<"how", " ", "to", " ", "grow", " ", "basil", " ", "indoors">> >>

locations ==
  << <<"near", " ", "me">>,
     <<"in", " ", "tokyo">>,
     <<"in", " ", "berlin">>,
     <<"in", " ", "new", " ", "york">>,
     <<"in", " ", "london">>,
     <<"in", " ", "san", " ", "francisco">>,
     <<"in", " ", "sydney">>,
     <<"in", " ", "toronto">> >>

\* s.trim()
RECURSIVE Trim(_)
Trim(s) ==
  IF s = <<>> THEN s
  ELSE IF IsSpace(s[1]) THEN Trim(Tail(s))
  ELSE IF IsSpace(s[Len(s)]) THEN Trim(SubSeq(s, 1, Len(s) - 1))
  ELSE s

\* s.replace(/\s+/g, " ")
RECURSIVE Collapse(_)
Collapse(s) ==
  IF s = <<>> THEN s
  ELSE IF IsSpace(s[1])
    THEN IF Len(s) > 1 /\ IsSpace(s[2]) THEN Collapse(Tail(s))
         ELSE <<" ">> \o Collapse(Tail(s))
  ELSE <<s[1]>> \o Collapse(Tail(s))

\* Normalize without the replace: q.trim() alone.
NormalizeTrimOnly(q) == Trim(q)

\* return q.replace(/\s+/g, " ").trim();
Normalize(q) == Trim(Collapse(q))

\* normalizeSeedLine(line)
normalizeSeedLine(line) ==
  IF Trim(line) = <<>> \/ Trim(line)[1] = "#" THEN Undefined ELSE Trim(line)

\* loadSeedPhrases(seedFile): no file given, a file that cannot be read, or
\* the lines of the file.
loadSeedPhrases(file) ==
  IF file.kind # "text" THEN <<>>
  ELSE SelectSeq([n \in 1 .. Len(file.lines) |-> normalizeSeedLine(file.lines[n])],
                 LAMBDA x : x # Undefined)

\* The lines of seed files: empty, a comment, and a phrase with white space
\* around and inside it.
SeedLines ==
  { <<>>, <<"#", "x">>, <<" ", "red", " ", " ", "shoes", "\t", "sale", " ">> }

SeedFiles ==
  {[kind |-> "none", lines |-> <<>>], [kind |-> "unreadable", lines |-> <<>>]}
    \cup {[kind |-> "text", lines |-> ls] :
            ls \in UNION {[1 .. n -> SeedLines] : n \in 0 .. MaxSeedLines}}

\* The locals of templateQuery, outside a call of it.
NoLocals ==
  [ seed |-> Undefined, category |-> Undefined, adjective |-> Undefined,
    intent |-> Undefined, brand |-> Undefined, priceCap |-> Undefined,
    year |-> Undefined, location |-> Undefined, topic |-> Undefined,
    unrelatedFragment |-> Undefined, q |-> Undefined ]

\* SourceRng with every Query Source handed the first generator.
SourceRngShared(k) == 1

\* The generator Query Source k is built with: one of its own.
SourceRng(k) == k

\* buildQuerySource(opts, rng): Query Source k, no nextQuery() call made.
NewSource(k, file) ==
  [ rng |-> SourceRng(k), seedPhrases |-> loadSeedPhrases(file), pc |-> "idle",
    v |-> NoLocals, out |-> <<>> ]

\* The seeds generators are made from.
Seeds == {<<0, 0>>, <<4660, 22136>>, <<65535, 65535>>}

\* One Query Source built with a generator in any state.
GenInit ==
  /\ \E file \in SeedFiles : sources = <<NewSource(1, file)>>
  /\ rngs = <<AnyRng>>
  /\ cfg = defaultConfig /\ pages = <<>> /\ pc = "idle"
  /\ SessionFresh /\ MainIdle /\ CallsIdle

\* Two Query Sources built independently with the same seed file, each with
\* a generator made from the same seed.
DetInit ==
  /\ \E file \in SeedFiles : sources = <<NewSource(1, file), NewSource(2, file)>>
  /\ \E seed \in Seeds : rngs = <<mulberry32(seed), mulberry32(seed)>>
  /\ cfg = defaultConfig /\ pages = <<>> /\ pc = "idle"
  /\ SessionFresh /\ MainIdle /\ CallsIdle

GenUnchanged ==
  UNCHANGED <<pc, sessionVars, browseVars, openVars, last, historyVars,
              argv, context, call, ret, waits>>

\* Query Source k, at statement at, gives local name one of the values and
\* goes on at statement next.
Assigns(k, at, name, next, values) ==
  /\ sources[k].pc = at
  /\ \E o \in values :
       /\ sources' = [sources EXCEPT ![k].v[name] = o.val, ![k].pc = next]
       /\ rngs' = [rngs EXCEPT ![sources[k].rng] = o.g]
  /\ GenUnchanged

\* rng() < percent / 100 ? randomChoice(rng, items) : undefined
Optional(g, percent, items) ==
  UNION { IF c.val THEN Pick(c.g, items) ELSE {[val |-> Undefined, g |-> c.g]} :
            c \in Chance(g, percent) }

\* querySource.nextQuery() is called; of a generator in an unknown state one
\* call is followed.
NextQueryCall ==
  \E k \in DOMAIN sources :
    /\ sources[k].pc = "idle"
    /\ Len(sources[k].out) < (IF rngs[sources[k].rng].kind = "any" THEN 1 ELSE MaxGenQueries)
    /\ sources' = [sources EXCEPT ![k].pc = "seed"]
    /\ UNCHANGED rngs
    /\ GenUnchanged

\* const seed = seedPhrases.length ? randomChoice(rng, seedPhrases) : undefined;
PickSeed ==
  \E k \in DOMAIN sources :
    Assigns(k, "seed", "seed", "category",
            IF Len(sources[k].seedPhrases) # 0
              THEN Pick(rngs[sources[k].rng], sources[k].seedPhrases)
              ELSE {[val |-> Undefined, g |-> rngs[sources[k].rng]]})

\* const category = randomChoice(rng, categories);
PickCategory ==
  \E k \in DOMAIN sources :
    Assigns(k, "category", "category", "adjective", Pick(rngs[sources[k].rng], categories))

\* const adjective = randomChoice(rng, adjectives);
PickAdjective ==
  \E k \in DOMAIN sources :
    Assigns(k, "adjective", "adjective", "intent", Pick(rngs[sources[k].rng], adjectives))

\* const intent = randomChoice(rng, intents);
PickIntent ==
  \E k \in DOMAIN sources :
    Assigns(k, "intent", "intent", "brand", Pick(rngs[sources[k].rng], intents))

\* const brand = rng() < 0.35 ? randomChoice(rng, brands) : undefined;
PickBrand ==
  \E k \in DOMAIN sources :
    Assigns(k, "brand", "brand", "priceCap", Optional(rngs[sources[k].rng], 35, brands))

\* const priceCap = rng() < 0.25 ? `under $${randomChoice(rng, [25, ...])}` : undefined;
PickPriceCap ==
  \E k \in DOMAIN sources :
    Assigns(k, "priceCap", "priceCap", "year",
            { [ val |-> IF o.val = Undefined THEN Undefined ELSE <<"under", " ", "$">> \o o.val,
                g |-> o.g ] :
                o \in Optional(rngs[sources[k].rng], 25,
                               << <<"25">>, <<"50">>, <<"100">>, <<"200">>, <<"300">>,
                                  <<"500">>, <<"1000">> >>) })

\* const year = rng() < 0.2 ? `${randomChoice(rng, [2024, 2025])}` : undefined;
PickYear ==
  \E k \in DOMAIN sources :
    Assigns(k, "year", "year", "location",
            Optional(rngs[sources[k].rng], 20, << <<"2024">>, <<"2025">> >>))

\* const location = rng() < 0.2 ? randomChoice(rng, locations) : undefined;
PickLocation ==
  \E k \in DOMAIN sources :
    Assigns(k, "location", "location", "topic", Optional(rngs[sources[k].rng], 20, locations))

\* const topic = rng() < 0.35 ? randomChoice(rng, topics) : undefined;
PickTopic ==
  \E k \in DOMAIN sources :
    Assigns(k, "topic", "topic", "unrelatedFragment", Optional(rngs[sources[k].rng], 35, topics))

\* const unrelatedFragment = (rng() < 0.28) ? randomChoice(rng, [...]) : undefined;
PickUnrelatedFragment ==
  \E k \in DOMAIN sources :
    Assigns(k, "unrelatedFragment", "unrelatedFragment", "pattern",
            Optional(rngs[sources[k].rng], 28,
                     << <<"for", " ", "beginners">>, <<"explained">>, <<"meaning">>,
                        <<"tips">>, <<"checklist">>, <<"guide">>, <<"vs">>, <<"and">>,
                        <<"ideas">> >>))

\* x ?? ""
OrEmpty(x) == IF x = Undefined THEN <<>> ELSE x

\* x ? `${x} ` : ""
WithSpace(x) == IF x = Undefined THEN <<>> ELSE x \o <<" ">>

\* topic ?? randomChoice(rng, topics)
TopicOrPick(v, g) ==
  IF v.topic = Undefined THEN Pick(g, topics) ELSE {[val |-> v.topic, g |-> g]}

\* patterns[j - 1](), the locals being v and the generator g.
Pattern(j, v, g) ==
  LET sp == <<" ">>
      One(text) == {[val |-> text, g |-> g]}
  IN CASE j = 1 -> One(Trim(v.adjective \o sp \o v.category \o sp \o OrEmpty(v.year)))
       [] j = 2 -> One(Trim(WithSpace(v.brand) \o v.category \o sp \o v.intent))
       [] j = 3 -> One(Trim(v.category \o sp \o v.intent \o sp \o OrEmpty(v.priceCap)))
       [] j = 4 -> One(Trim(WithSpace(v.seed) \o v.category \o sp \o v.intent))
       [] j = 5 -> One(Trim(v.adjective \o sp \o WithSpace(v.brand) \o v.category
                            \o sp \o v.intent))
       [] j = 6 -> One(Trim(v.category \o sp \o v.intent \o sp \o OrEmpty(v.year)))
       [] j = 7 ->
            UNION { { [ val |-> Collapse(Trim(v.category \o sp \o w.val \o sp \o t.val)),
                        g |-> t.g ] : t \in TopicOrPick(v, w.g) } :
                    w \in Pick(g, << <<"why">>, <<"how">>, <<"what">>, <<"when">> >>) }
       [] j = 8 ->
            {[val |-> Trim(t.val \o sp \o v.category), g |-> t.g] : t \in TopicOrPick(v, g)}
       [] j = 9 -> One(Trim(v.category \o sp \o OrEmpty(v.location) \o sp \o v.intent))
       [] j = 10 ->
            { [val |-> Trim(WithSpace(v.seed) \o t.val \o sp \o v.category), g |-> t.g] :
                t \in TopicOrPick(v, g) }
       [] j = 11 ->
            One(Collapse(Trim(v.adjective \o sp \o v.category \o sp
                              \o OrEmpty(v.unrelatedFragment) \o sp
                              \o (IF v.topic = Undefined THEN <<>> ELSE sp \o v.topic))))
       [] j = 12 ->
            UNION { UNION { { [val |-> Trim(a.val \o sp \o glue.val \o sp \o b.val),
                               g |-> glue.g] :
                                glue \in Pick(b.g, << <<"and">>, <<"vs">>, <<"with">>,
                                                      <<"for">> >>) } :
                            b \in Pick(a.g, topics) } :
                    a \in Pick(g, categories) }

\* let q = randomChoice(rng, patterns)();  the other locals are not read again.
ApplyPattern ==
  \E k \in DOMAIN sources :
    /\ sources[k].pc = "pattern"
    /\ \E j \in PickIndex(rngs[sources[k].rng], 12, 12) :
         \E o \in Pattern(j.val, sources[k].v, j.g) :
           /\ sources' = [sources EXCEPT ![k].v = [NoLocals EXCEPT !.q = o.val],
                                         ![k].pc = "qualifier"]
           /\ rngs' = [rngs EXCEPT ![sources[k].rng] = o.g]
    /\ GenUnchanged

\* if (rng() < 0.25) { q += ` ${randomChoice(rng, ["review", ...])}`; }
AddQualifier ==
  \E k \in DOMAIN sources :
    Assigns(k, "qualifier", "q", "number",
            { [ val |-> IF o.val = Undefined THEN sources[k].v.q
                        ELSE sources[k].v.q \o <<" ">> \o o.val,
                g |-> o.g ] :
                o \in Optional(rngs[sources[k].rng], 25,
                               << <<"review">>, <<"comparison">>, <<"specs">>,
                                  <<"warranty">>, <<"setup">>, <<"troubleshooting">> >>) })

\* if (rng() < 0.2) { q += ` ${randomInt(rng, 2, 128)}`; }
AddNumber ==
  \E k \in DOMAIN sources :
    Assigns(k, "number", "q", "return",
            UNION { IF c.val
                      THEN {[val |-> sources[k].v.q \o <<" ">> \o n.val, g |-> n.g] :
                              n \in IntIn(c.g, 2, 128)}
                      ELSE {[val |-> sources[k].v.q, g |-> c.g]} :
                    c \in Chance(rngs[sources[k].rng], 20) })

\* return q.replace(/\s+/g, " ").trim();
ReturnQuery ==
  \E k \in DOMAIN sources :
    /\ sources[k].pc = "return"
    /\ sources' = [sources EXCEPT ![k].out = Append(@, Normalize(sources[k].v.q)),
                                  ![k].v = NoLocals,
                                  ![k].pc = "idle"]
    /\ UNCHANGED rngs
    /\ GenUnchanged

GenNext ==
  \/ NextQueryCall \/ PickSeed \/ PickCategory \/ PickAdjective
  \/ PickIntent \/ PickBrand \/ PickPriceCap \/ PickYear
  \/ PickLocation \/ PickTopic \/ PickUnrelatedFragment
  \/ ApplyPattern \/ AddQualifier \/ AddNumber \/ ReturnQuery

\* nextQuery() called on a Query Source whose generator is in any state.
GenSpec == GenInit /\ [][GenNext]_vars

\* Two Query Sources built from the same seed, their calls interleaved.
DetSpec == DetInit /\ [][GenNext]_vars

\* ---------------------------------------------------------------------- main

\* A string is a sequence of symbols: a character, or an option name written
\* as one symbol. The strings a command line is made of here:
\* --max-queries, --max-queries=-5, --min-dwell-ms, --max-pages-per-query=3,
\* --help, -5, 7, " 7x", x and the empty string.
ArgStrings ==
  { <<"-", "-", "max-queries">>,
    <<"-", "-", "max-queries", "=", "-", "5">>,
    <<"-", "-", "min-dwell-ms">>,
    <<"-", "-", "max-pages-per-query", "=", "3">>,
    <<"-", "-", "help">>,
    <<"-", "5">>,
    <<"7">>,
    <<" ", "7", "x">>,
    <<"x">>,
    <<>> }

Argvs == UNION {[1 .. n -> ArgStrings] : n \in 0 .. MaxArgs}

\* cur.startsWith("--")
StartsWithDashes(str) == Len(str) >= 2 /\ str[1] = "-" /\ str[2] = "-"

\* cur.indexOf("="), counting from 1 (0: none).
IndexOfEq(str) ==
  IF \E n \in 1 .. Len(str) : str[n] = "="
    THEN CHOOSE n \in 1 .. Len(str) : str[n] = "=" /\ \A m \in 1 .. (n - 1) : str[m] # "="
    ELSE 0

\* out[key] = val
Put(out, key, val) ==
  [k \in DOMAIN out \cup {key} |-> IF k = key THEN val ELSE out[k]]

\* args[key]
Get(out, key) == IF key \in DOMAIN out THEN out[key] ELSE [kind |-> "undefined"]

StringValue(str) == [kind |-> "string", s |-> str]

\* parseArgs: the loop from index n on, with the ArgMap out built so far.
RECURSIVE parseArgsFrom(_, _, _)
parseArgsFrom(av, n, out) ==
  IF n > Len(av) THEN out
  ELSE LET cur == av[n]
           eq == IndexOfEq(cur)
       IN IF ~StartsWithDashes(cur) THEN parseArgsFrom(av, n + 1, out)
          ELSE IF eq # 0
            THEN parseArgsFrom(av, n + 1,
                   Put(out, SubSeq(cur, 3, eq - 1), StringValue(SubSeq(cur, eq + 1, Len(cur)))))
          ELSE IF n + 1 > Len(av) \/ av[n + 1] = <<>> \/ StartsWithDashes(av[n + 1])
            THEN parseArgsFrom(av, n + 1, Put(out, SubSeq(cur, 3, Len(cur)), [kind |-> "true"]))
          ELSE parseArgsFrom(av, n + 2, Put(out, SubSeq(cur, 3, Len(cur)), StringValue(av[n + 1])))

parseArgs(av) == parseArgsFrom(av, 1, <<>>)

DecimalDigits == <<"0", "1", "2", "3", "4", "5", "6", "7", "8", "9">>

\* Number.parseInt(str, 10) from position n on: the digits read so far being
\* worth acc.n, read on while digits come.
RECURSIVE parseDigits(_, _, _)
parseDigits(str, n, acc) ==
  IF n <= Len(str) /\ str[n] \in Range(DecimalDigits)
    THEN parseDigits(str, n + 1,
           [nan |-> FALSE,
            n |-> acc.n * 10 + (CHOOSE d \in 0 .. 9 : DecimalDigits[d + 1] = str[n])])
    ELSE acc

\* Number.parseInt(str, 10): leading white space is skipped, a sign is read,
\* then the longest run of digits; NaN when there is none.
parseInt(str) ==
  LET spaces == CHOOSE n \in 0 .. Len(str) :
                  /\ \A m \in 1 .. n : str[m] = " "
                  /\ n < Len(str) => str[n + 1] # " "
      signed == spaces < Len(str) /\ str[spaces + 1] \in {"-", "+"}
      digits == parseDigits(str, spaces + (IF signed THEN 2 ELSE 1), [nan |-> TRUE, n |-> 0])
  IN IF signed /\ str[spaces + 1] = "-"
       THEN [digits EXCEPT !.n = 0 - @]
       ELSE digits

\* coerceInt(v, fallback), for the values parseArgs stores (a string or true)
\* and undefined.
coerceInt(v, fallback) ==
  IF v.kind = "string" /\ ~parseInt(v.s).nan THEN parseInt(v.s).n ELSE fallback

\* The option each session-shape field of the Run Configuration is read from.
OptionOf ==
  [ maxQueries |-> "max-queries",
    minDwellMs |-> "min-dwell-ms",
    maxDwellMs |-> "max-dwell-ms",
    minBetweenQueriesMs |-> "min-between-queries-ms",
    maxBetweenQueriesMs |-> "max-between-queries-ms",
    maxProductOpensPerQuery |-> "max-product-opens-per-query",
    maxScrollsPerPage |-> "max-scrolls-per-page",
    maxPagesPerQuery |-> "max-pages-per-query" ]

\* The defaults the usage text documents.
usageDefaults ==
  [ maxQueries |-> 10,
    minDwellMs |-> 6000,
    maxDwellMs |-> 18000,
    minBetweenQueriesMs |-> 7000,
    maxBetweenQueriesMs |-> 20000,
    maxProductOpensPerQuery |-> 2,
    maxScrollsPerPage |-> 8,
    maxPagesPerQuery |-> 2 ]

\* if (args.help || args.h)
HelpAsked(args) ==
  \E key \in {<<"help">>, <<"h">>} :
    Get(args, key) \in {[kind |-> "true"]}
      \/ (Get(args, key).kind = "string" /\ Get(args, key).s # <<>>)

\* main is called with the command line argv; config = defaultConfig().
ArgsInit ==
  /\ argv \in Argvs
  /\ context = "none"
  /\ cfg = defaultConfig /\ pages = <<>> /\ pc = "main"
  /\ SessionFresh /\ CallsIdle /\ SourcesIdle

ArgsUnchanged ==
  UNCHANGED <<pages, i, query, err, events, browseVars, openVars, last, historyVars,
              outerVars>>

\* console.log(usage()); process.exit(0);
ShowUsage ==
  /\ pc = "main"
  /\ HelpAsked(parseArgs(argv))
  /\ pc' = "usage"
  /\ UNCHANGED cfg
  /\ ArgsUnchanged

\* config.maxQueries = coerceInt(args["max-queries"], config.maxQueries); and
\* so on for the eight session-shape fields: the Run Configuration that is
\* handed to runShoppingSession.
ResolveConfig ==
  /\ pc = "main"
  /\ ~HelpAsked(parseArgs(argv))
  /\ cfg' = [f \in DOMAIN cfg |-> coerceInt(Get(parseArgs(argv), <<OptionOf[f]>>), cfg[f])]
  /\ pc' = "configured"
  /\ ArgsUnchanged

ArgsNext == ShowUsage \/ ResolveConfig

\* main from the command line to the Run Configuration.
ArgsSpec == ArgsInit /\ [][ArgsNext]_vars

\* FinallyPc with a rejected context.close() swallowed.
FinallySwallows(r) == "done"

\* finally { await context.close(); }: where main goes when the close settles
\* as r. A rejection leaves main; main().catch prints it and exits with 1.
FinallyPc(r) == IF r = "fail" THEN "rejected" ELSE "done"

\* runShoppingSession has returned: finally { await context.close(); }
ContextClose ==
  /\ pc = "returned"
  /\ \E r \in Settles :
       /\ context' = IF r = "ok" THEN "closed" ELSE context
       /\ pages' = IF r = "ok" THEN <<>> ELSE pages
       /\ pc' = FinallyPc(r)
       /\ last' = Step("contextClose", r, Failed("contextClose", r))
  /\ UNCHANGED <<cfg, i, query, err, events, browseVars, openVars, historyVars,
                 argv, call, ret, sources, rngs, waits>>

\* log("done", {});  and main returns.
LogDone ==
  /\ pc = "done"
  /\ events' = Append(events, [event |-> "done"])
  /\ pc' = "exit"
  /\ last' = Step("done", "ok", {})
  /\ UNCHANGED <<cfg, pages, i, query, err, browseVars, openVars, historyVars, outerVars>>

MainNext == Next \/ ContextClose \/ LogDone

\* main from the call of runShoppingSession to its end.
MainSpec == Init /\ [][MainNext]_vars

\* ------------------------------------------- openRandomProduct: the two waits

\* OpenSteps with the click issued before navPromise is made.
OpenStepsClickFirst ==
  <<"armPopup", "issueClick", "armNav", "awaitClick", "awaitPopup", "awaitNav">>

\* The statements of openRandomProduct from popupPromise on, in their order.
OpenSteps ==
  <<"armPopup", "armNav", "issueClick", "awaitClick", "awaitPopup", "awaitNav">>

\* openRandomProduct has picked its link and slept: it is at popupPromise.
OpenInit ==
  /\ cfg = defaultConfig
  /\ pages \in {Append(ps, SessionPage) :
                  ps \in {<<>>} \cup [1 .. MaxPreexisting -> {"preexisting"}]}
  /\ pc = OpenSteps[1]
  /\ SessionFresh
  /\ MainIdle /\ CallsIdle /\ SourcesIdle

\* Statement at of OpenSteps is done: the next one, which[at] of waits becoming
\* value; nothing else of the session changes.
OpenStep(at, next, which, value) ==
  /\ pc = at
  /\ pc' = next
  /\ waits' = [waits EXCEPT ![which] = value]
  /\ last' = Step(at, value, {})
  /\ UNCHANGED <<sessionVars, browseVars, openVars, historyVars,
                 argv, context, call, ret, sources, rngs>>

\* The statement after statement at.
After(at) == OpenSteps[(CHOOSE n \in 1 .. Len(OpenSteps) : OpenSteps[n] = at) + 1]

\* const popupPromise = context.waitForEvent("page", { timeout: 6_000 }).catch(() => null);
ArmPopupWait ==
  /\ waits.popup = "unarmed"
  /\ OpenStep("armPopup", After("armPopup"), "popup", "pending")

\* const navPromise = page.waitForNavigation({ timeout: 6_000, ... }).catch(() => null);
ArmNavWait ==
  /\ waits.nav = "unarmed"
  /\ OpenStep("armNav", After("armNav"), "nav", "pending")

\* link.click({ timeout: 6_000, button: "left" }) is called.
IssueClick ==
  /\ waits.click = "none"
  /\ OpenStep("issueClick", After("issueClick"), "click", "inflight")

\* await link.click(...).catch(() => undefined): the click resolves, the
\* browser then having a new tab to open, a navigation to make in place or
\* neither, or it rejects.
ClickSettles ==
  /\ pc = "awaitClick"
  /\ waits.click = "inflight"
  /\ \E r \in ClickEffects :
       /\ r = "popup" => Len(pages) < MaxTabs
       /\ waits' = [waits EXCEPT !.click = IF r = "fail" THEN "fail" ELSE "ok",
                                 !.effect = IF r \in {"popup", "navigated"} THEN r ELSE "none"]
       /\ clicked' = r
       /\ last' = Step("click", r, Failed("click", r))
  /\ pc' = After("awaitClick")
  /\ UNCHANGED <<sessionVars, browseVars, idx, popup, openDraws, historyVars,
                 argv, context, call, ret, sources, rngs>>

\* The browser does what the click asked for, at a time of its own: the new
\* tab is there (the context's "page" event) or the page has reached
\* domcontentloaded. A wait still pending resolves with it; a wait that has
\* timed out does not see it.
ClickTakesEffect ==
  /\ waits.effect \in {"popup", "navigated"}
  /\ LET which == IF waits.effect = "popup" THEN "popup" ELSE "nav" IN
       waits' = [waits EXCEPT !.effect = "none",
                              ![which] = IF @ = "pending" THEN "resolved" ELSE @,
                              !.missed = IF waits[which] = "pending" THEN @ ELSE @ \cup {which}]
  /\ pages' = IF waits.effect = "popup" THEN Append(pages, "popup") ELSE pages
  /\ UNCHANGED <<pc, cfg, i, query, err, events, browseVars, openVars, last, historyVars,
                 argv, context, call, ret, sources, rngs>>

\* { timeout: 6_000 } of a wait runs out and .catch(() => null) makes it null.
\* The statements from popupPromise to the click call run without an await
\* between them, so no timeout comes before the click is issued.
WaitTimesOut ==
  /\ waits.click # "none"
  /\ \E which \in {"popup", "nav"} :
       /\ waits[which] = "pending"
       /\ waits' = [waits EXCEPT ![which] = "timedout"]
  /\ UNCHANGED <<pc, sessionVars, browseVars, openVars, last, historyVars,
                 argv, context, call, ret, sources, rngs>>

\* const popup = await popupPromise;
AwaitPopup ==
  /\ pc = "awaitPopup"
  /\ waits.popup \in {"resolved", "timedout"}
  /\ popup' = IF waits.popup = "resolved" THEN "popup" ELSE "null"
  /\ pc' = After("awaitPopup")
  /\ last' = Step("awaitPopup", popup', {})
  /\ UNCHANGED <<sessionVars, browseVars, idx, clicked, openDraws, historyVars, outerVars>>

\* await navPromise;  if (popup) { ... }  return true;
AwaitNav ==
  /\ pc = "awaitNav"
  /\ waits.nav \in {"resolved", "timedout"}
  /\ pc' = IF popup # "null" THEN "waitForLoadState" ELSE "dwell"
  /\ last' = Step("awaitNav", waits.nav, {})
  /\ UNCHANGED <<sessionVars, browseVars, openVars, historyVars, outerVars>>

OpenNext ==
  \/ ArmPopupWait \/ ArmNavWait \/ IssueClick \/ ClickSettles
  \/ ClickTakesEffect \/ WaitTimesOut \/ AwaitPopup \/ AwaitNav
  \/ WaitForLoadState \/ Dwell \/ CloseNewest \/ BringToFront \/ GoBack \/ ReturnJitter

\* One product open from popupPromise to the end of the return step, the
\* browser's events and the timeouts coming when they come.
OpenSpec == OpenInit /\ [][OpenNext]_vars

\* ------------------------------------------ one generator, two consumers

\* What the browser answers while one session runs: whether the results page
\* is a block page, how many candidate links a page shows, and whether the
\* Next control is visible. On a block page nothing else is asked.
Responses ==
  {r \in [blocked : BOOLEAN, links : {0, MaxLinks}, next : BOOLEAN] :
     r.blocked => r.links = 0 /\ ~r.next}

\* F of the value of x, x being computed before F is entered.
Then(x, F(_)) == CHOOSE y \in {F(b) : b \in {x}} : TRUE

\* randomInt(rng, min, max) on the generator state a: the value and the state
\* after it.
Draw(a, min, max) ==
  IF max < min THEN [val |-> min, a |-> a]
  ELSE Then(mulberry32Next(a),
            LAMBDA d : [val |-> FloorTimes(d.x, max - min + 1) + min, a |-> d.a])

\* The generator state after n more calls of rng().
RECURSIVE Skip(_, _)
Skip(a, n) ==
  IF n <= 0 THEN a ELSE Then(mulberry32Next(a).a, LAMBDA b : Skip(b, n - 1))

\* The pages loop of browseShoppingForQuery from page at of n under config c and
\* responses r: the generator state when the loop is left. A page costs the
\* draw of scrolls, dy and a jitter for each scroll step, the draw of
\* productOpens and, for each product opened, idx, the jitter before the
\* click, the dwell and the jitter after the return; going to the next page
\* costs one jitter.
RECURSIVE BrowsePages(_, _, _, _, _)
BrowsePages(a, at, n, c, r) ==
  IF at >= n THEN a
  ELSE LET nScrolls == Draw(a, 2, Max(2, c.maxScrollsPerPage))
           scrolled == Skip(nScrolls.a, 2 * nScrolls.val)
           nOpens == Draw(scrolled, 0, Max(0, c.maxProductOpensPerQuery))
           opened == IF r.links <= 0 THEN nOpens.a
                     ELSE Skip(nOpens.a,
                               nOpens.val
                                 * (3 + randomIntDraws(c.minDwellMs, c.maxDwellMs)))
       IN IF at < n - 1 /\ r.next
            THEN Then(Skip(opened, 1), LAMBDA b : BrowsePages(b, at + 1, n, c, r))
          ELSE opened

\* browseShoppingForQuery on the generator state a: whether it threw, and the
\* generator state it leaves.
BrowseRng(a, c, r) ==
  IF r.blocked THEN [threw |-> TRUE, a |-> a]
  ELSE LET nPages == Draw(a, 1, Max(1, c.maxPagesPerQuery))
       IN [ threw |-> FALSE,
            a |-> Skip(BrowsePages(nPages.a, 0, nPages.val, c, r),
                       randomIntDraws(c.minDwellMs, c.maxDwellMs)) ]

\* LoopBody with the query browsed before it is drawn.
LoopBodyBrowseFirst == <<"browse", "nextQuery", "between">>

\* The body of the session loop: nextQuery(), browseShoppingForQuery, and the
\* jitter between queries.
LoopBody == <<"nextQuery", "browse", "between">>

\* The statement of the loop body after statement at.
Following(at) == LoopBody[(CHOOSE n \in 1 .. Len(LoopBody) : LoopBody[n] = at) + 1]

\* Two sessions started with the same seed, configuration and seed phrases,
\* each with a generator of its own that its Query Source and its loop share,
\* and each with a browser of its own.
JointInit ==
  /\ \E file \in {f \in SeedFiles : f.kind = "text" /\ Len(f.lines) = 1} :
       \E r1, r2 \in Responses :
         sources = << NewSource(1, file) @@ [at |-> LoopBody[1], i |-> 0, resp |-> r1],
                      NewSource(2, file) @@ [at |-> LoopBody[1], i |-> 0, resp |-> r2] >>
  /\ \E seed \in Seeds : rngs = <<mulberry32(seed), mulberry32(seed)>>
  /\ cfg = [defaultConfig EXCEPT !.maxQueries = MaxGenQueries]
  /\ pages = <<>> /\ pc = "idle"
  /\ SessionFresh /\ MainIdle /\ CallsIdle

\* Session k is at statement at of the loop body, the statement before it
\* having returned. A session is a replay of the one before it: it runs once
\* that one has ended.
SessionAt(k, at) ==
  /\ sources[k].at = at /\ sources[k].pc = "idle"
  /\ \A j \in 1 .. k - 1 : sources[j].at = "ended"

\* const query = querySource.nextQuery();
SessionNextQuery ==
  \E k \in DOMAIN sources :
    /\ SessionAt(k, "nextQuery")
    /\ sources' = [sources EXCEPT ![k].pc = "seed", ![k].at = Following("nextQuery")]
    /\ UNCHANGED rngs
    /\ GenUnchanged

\* try { await browseShoppingForQuery(page, context, config, query, rng); }
\* catch (err) { ...; break; }
SessionBrowse ==
  \E k \in DOMAIN sources :
    /\ SessionAt(k, "browse")
    /\ LET b == BrowseRng(rngs[sources[k].rng].a, cfg, sources[k].resp)
       IN /\ sources' = [sources EXCEPT
                           ![k].at = IF b.threw THEN "ended" ELSE Following("browse")]
          /\ rngs' = [rngs EXCEPT ![sources[k].rng].a = b.a]
    /\ GenUnchanged

\* await jitter(rng, config.minBetweenQueriesMs, config.maxBetweenQueriesMs);
\* i++; i < config.maxQueries
SessionBetween ==
  \E k \in DOMAIN sources :
    /\ SessionAt(k, "between")
    /\ sources' = [sources EXCEPT
                     ![k].i = @ + 1,
                     ![k].at = IF sources[k].i + 1 < cfg.maxQueries
                                 THEN LoopBody[1] ELSE "ended"]
    /\ rngs' = [rngs EXCEPT
                  ![sources[k].rng].a =
                     Skip(@, randomIntDraws(cfg.minBetweenQueriesMs,
                                            cfg.maxBetweenQueriesMs))]
    /\ GenUnchanged

JointNext ==
  \/ SessionNextQuery \/ SessionBrowse \/ SessionBetween
  \/ PickSeed \/ PickCategory \/ PickAdjective
  \/ PickIntent \/ PickBrand \/ PickPriceCap \/ PickYear
  \/ PickLocation \/ PickTopic \/ PickUnrelatedFragment
  \/ ApplyPattern \/ AddQualifier \/ AddNumber \/ ReturnQuery

\* A session and its replay from the same seed, each drawing its queries and
\* its session-loop numbers from one generator.
JointSpec == JointInit /\ [][JointNext]_vars

\* The session with every awaited operation and every sleep completing or
\* timing out: a step that can be taken is eventually taken.
LiveSpec == Init /\ [][Next]_vars /\ WF_vars(Next)

\* ------------------------------------------------------------------ claims

EventsOf(kind) == {n \in 1 .. Len(events) : events[n].event = kind}

\* The session has left the query loop.
LoopLeft == pc \in {"pageClose", "returned"}

\* C1: once a query_error event is logged, no query_start event follows it in
\* the run: the error is the last event, and the session is past its query
\* loop (no retry, no skip to the next query).
C1_NoStartAfterError ==
  \A m \in EventsOf("query_error") :
    /\ m = Len(events)
    /\ \A n \in EventsOf("query_start") : n < m
    /\ LoopLeft

\* C1 witness: the run ended on a first query's error with a further query
\* left in the budget.
C1_Witness ==
  /\ pc = "returned"
  /\ Len(events) = 2
  /\ events[2].event = "query_error"
  /\ i + 1 < cfg.maxQueries

\* C2: the query events are well formed: a query_start is directly followed
\* by the query_end or query_error of the same query text (and is followed by
\* one by the time the session returns), query_end and query_error occur only
\* directly after their query_start, and there are at most max(0, maxQueries)
\* query_start events.
C2_WellFormedEvents ==
  /\ \A n \in 1 .. Len(events) :
       IF events[n].event = "query_start"
         THEN n < Len(events) =>
                /\ events[n + 1].event \in {"query_end", "query_error"}
                /\ events[n + 1].query = events[n].query
         ELSE /\ events[n].event \in {"query_end", "query_error"}
              /\ n > 1
              /\ events[n - 1].event = "query_start"
              /\ events[n - 1].query = events[n].query
  /\ pc = "returned" /\ Len(events) > 0 => events[Len(events)].event # "query_start"
  /\ Cardinality(EventsOf("query_start")) <= Max(0, cfg.maxQueries)

\* C2 witness: a run that spent its whole budget of two queries, on
\* different query texts.
C2_Witness ==
  /\ pc = "returned"
  /\ cfg.maxQueries = 2
  /\ Cardinality(EventsOf("query_start")) = 2
  /\ Cardinality(EventsOf("query_end")) = 2
  /\ events[1].query # events[3].query

BrowseKinds == {"scroll", "open", "next"}

QueryPrefix == <<"query_start", "goto", "consent", "isBlocked">>

\* C3: the steps of a query come in the order query_start log, navigation,
\* consent handling, block check, and only then scrolling, product opens and
\* next-page clicks; when the first block check matches, the query fails
\* with the Blocked error and none of the latter is performed in it.
C3_OrderAndInitialBlock ==
  /\ \A n \in 1 .. Len(firsts) :
       IF n <= Len(QueryPrefix) THEN firsts[n] = QueryPrefix[n]
       ELSE firsts[n] \in BrowseKinds
  /\ initBlock = "blocked" =>
       /\ err = "Blocked"
       /\ pc = "catch" \/ LoopLeft
       /\ firsts = QueryPrefix
       /\ pagesBrowsed = 0 /\ nextAttempts = 0
       /\ pc # "catch" => events[Len(events)].event = "query_error"

\* C3 witness: a run ended by a block page found at a query's first check.
C3_Witness ==
  /\ initBlock = "blocked"
  /\ pc = "returned"
  /\ last.op = "pageClose"

\* C4: openRandomProduct is entered only directly after an isBlocked check
\* that returned false, and a check that returns true throws to the catch
\* (query_error) instead.
C4_BlockCheckBeforeOpen ==
  /\ pc = "count" => last.op = "isBlocked" /\ last.res = "false"
  /\ last.op = "isBlocked" /\ last.res = "true" => pc = "catch" /\ err = "Blocked"

\* C4 witness: the second product open of a page is about to start.
C4_Witness == pc = "count" /\ openI = 1

\* The operations the error taxonomy lists as soft: consent click, return
\* navigation, next-page click and navigation wait, product-link click and
\* its two waits, page-text read.
SoftOps ==
  { "rejectClick", "acceptClick", "close", "bringToFront", "goBack",
    "nextClick", "nextNavigation", "click", "waitForEvent", "waitForNavigation",
    "waitForLoadState", "innerText" }

\* C5: a failed soft operation is never what a query_error reports, and the
\* step it fails in goes on with the query: it neither throws nor leaves the
\* query loop.
C5_SoftFailuresSwallowed ==
  /\ err \notin SoftOps
  /\ \A n \in EventsOf("query_error") : events[n].error \notin SoftOps
  /\ last.failed # {} /\ last.failed \subseteq SoftOps =>
       pc # "catch" /\ ~LoopLeft

\* C5 witness: a query reaches its last pause right after a failed go-back
\* of its only product open.
C5_Witness ==
  /\ last.op = "goBack" /\ last.failed = {"goBack"}
  /\ pc = "returnJitter"
  /\ openI + 1 = productOpens

\* C6: the only conditions that abort a query are a failed navigation to the
\* results page and a detected block; a failed awaited operation of any other
\* kind, a wheel scroll included, is skipped and throws nothing.
C6_OnlyGotoAndBlockAbort == err \in {"none", "goto", "Blocked"}

\* The steps of one product open, from the block check before it to the
\* pause after the return.
OpenPcs ==
  { "isBlockedPre", "count", "scrollIntoView", "openJitter", "click",
    "awaitWaits", "waitForLoadState", "dwell", "returnFromProduct",
    "bringToFront", "returnJitter" }

\* C7: a query that browses browses at most pagesToBrowse pages, chosen in
\* [1, max(1, maxPagesPerQuery)], and a query that completes has browsed at
\* least one; a next-page click is attempted only while pages remain in that
\* budget; a next-page link that is not visible ends the page loop at the
\* query's closing pause, not in the catch; with maxPagesPerQuery <= 1 one
\* page is browsed and no next-page click is looked for or attempted.
C7_PageBudget ==
  /\ pagesBrowsed >= 1 =>
       /\ pagesBrowsed <= Max(1, cfg.maxPagesPerQuery)
       /\ nextAttempts <= pagesBrowsed
       /\ nextAttempts < Max(1, cfg.maxPagesPerQuery)
  /\ pagesBrowsed >= 1 /\ pc \notin {"betweenQueries", "nextQuery", "query_start"} /\ ~LoopLeft =>
       /\ pagesToBrowse \in 1 .. Max(1, cfg.maxPagesPerQuery)
       /\ pagesBrowsed <= pagesToBrowse
       /\ nextAttempts < pagesToBrowse
  /\ pc = "nextClick" => p < pagesToBrowse - 1
  /\ pc \in {"query_end", "betweenQueries"} => pagesBrowsed >= 1
  /\ last.op = "nextVisible" /\ last.res = "false" => pc = "endDwell"
  /\ cfg.maxPagesPerQuery <= 1 =>
       /\ pagesBrowsed <= 1
       /\ nextAttempts = 0
       /\ pc # "nextClick" /\ last.op # "nextVisible"

\* C7 witness: a query completes after one page of a budget of two, its
\* next-page link not being visible.
C7_Witness ==
  /\ pc = "query_end"
  /\ pagesToBrowse = 2 /\ pagesBrowsed = 1 /\ nextAttempts = 0
  /\ last.op = "endDwell"

\* C8 as claimed: once openRandomProduct has returned false in a query, it is
\* not called again in that query, on a later result page either.
C8_NoOpenAfterNothingOpened == ~(noneAtPage > 0 /\ pc = "count")

\* C8 as amended: once openRandomProduct has returned false on a result page,
\* no further product open is attempted on that page (the product loop of the
\* page ends at once); a product open attempted later in the query is on a
\* later result page.
C8_NoOpenOnSamePage ==
  /\ last.op = "count" /\ last.res = "0" =>
       pc = "nextPageTest" /\ noneAtPage = pagesBrowsed
  /\ noneAtPage > 0 /\ pc \in OpenPcs => pagesBrowsed > noneAtPage

\* C8 witness: openRandomProduct is called on the second result page after it
\* returned false on the first.
C8_Witness == noneAtPage = 1 /\ pagesBrowsed = 2 /\ pc = "count"

\* C9: with no product link counted (the count is 0 or counting failed),
\* openRandomProduct returns false without throwing, without a click and
\* without an rng() call, and the product loop of the page ends: the next
\* step is the next-page test, with no dwell and no return step.
C9_NoCandidatesNoOpen ==
  last.op = "count" /\ last.res = "0" =>
    /\ pc = "nextPageTest"
    /\ err = "none"
    /\ openDraws = 0
    /\ idx = -1 /\ clicked = "none" /\ popup = "null"

\* C9 witness: counting the links failed at the second product open of a page.
C9_Witness ==
  /\ last.op = "count" /\ last.failed = {"count"}
  /\ openI = 1
  /\ pc = "nextPageTest"

\* A step of returnFromProduct.
ReturnStep == pc = "returnFromProduct" /\ pc' # pc

\* C10 as claimed: with more than one page open the return step closes the
\* newest page and goes on to bring the session page to front; it goes back
\* in history only with exactly one page open.
C10_GoBackOnlyWithOnePage ==
  [][ReturnStep =>
       IF Len(pages) > 1
         THEN last'.op = "close" /\ pc' = "bringToFront"
         ELSE last'.op = "goBack"]_vars

\* C10 as amended: with more than one page open and the newest page of the
\* context not the session page, the return step closes that newest page
\* (and no other) and goes on to bring the session page to front; otherwise,
\* the session page being the only page or the newest one, it goes back in
\* history and closes nothing.
C10_CloseNewestUnlessSession ==
  [][ReturnStep =>
       IF Len(pages) > 1 /\ pages[Len(pages)] # SessionPage
         THEN /\ last'.op = "close" /\ pc' = "bringToFront"
              /\ pages' = IF last'.res = "ok"
                            THEN SubSeq(pages, 1, Len(pages) - 1) ELSE pages
         ELSE /\ last'.op = "goBack" /\ pc' = "returnJitter"
              /\ pages' = pages]_vars

\* C10 witness: history go-back was invoked with two pages open, the session
\* page being the newer one.
C10_Witness ==
  /\ last.op = "goBack"
  /\ Len(pages) = 2
  /\ pages[2] = SessionPage

\* The steps of maybeHandleConsent.
ConsentPcs == {"rejectVisible", "rejectClick", "acceptVisible", "acceptClick"}

\* C18: consent handling prefers reject over accept and is never fatal: with
\* the reject button seen visible the accept button is neither looked for nor
\* clicked, whether the reject click succeeds or fails; accept is clicked only
\* with reject seen not visible; a query makes at most one consent click, in
\* the one consent handling it runs between navigation and block check; and
\* no visibility check or click of the consent handling throws.
C18_ConsentRejectFirst ==
  /\ consent.reject = "true" =>
       /\ "accept" \notin Range(consent.clicks)
       /\ pc \notin {"acceptVisible", "acceptClick"}
  /\ pc = "acceptClick" \/ "accept" \in Range(consent.clicks) => consent.reject = "false"
  /\ Len(consent.clicks) <= 1
  /\ pc \in {"rejectClick", "acceptClick"} => consent.clicks = <<>>
  /\ pc = "rejectVisible" => firsts = <<"query_start", "goto">>
  /\ pc \in ConsentPcs \ {"rejectVisible"} => firsts = <<"query_start", "goto", "consent">>
  /\ last.op \in ConsentPcs => pc \in ConsentPcs \cup {"isBlocked"} /\ err = "none"

\* C18 witness: the reject button was visible and its click failed; the query
\* is at its block check with no accept click made.
C18_Witness ==
  /\ pc = "isBlocked"
  /\ consent = [reject |-> "true", clicks |-> <<"reject">>]
  /\ last.failed = {"rejectClick"}

\* The steps of a result page after its scrolling.
AfterScrollPcs ==
  OpenPcs \cup {"productOpens", "nextPageTest", "nextClick", "nextJitter", "endDwell", "query_end"}

\* C19: with every operation and sleep completing or timing out, the session
\* terminates: it returns, having attempted to close the session page as its
\* last step, on the normal path and after a query_error alike; and on the
\* way it starts at most max(0, maxQueries) queries, browses at most
\* max(1, maxPagesPerQuery) pages in a query, and makes at most
\* max(2, maxScrollsPerPage) scroll steps and at most
\* max(0, maxProductOpensPerQuery) product opens on a page.
C19_TerminatesWithinBounds ==
  /\ [](/\ i <= Max(0, cfg.maxQueries)
        /\ Cardinality(EventsOf("query_start")) <= Max(0, cfg.maxQueries)
        /\ pagesBrowsed <= Max(1, cfg.maxPagesPerQuery)
        /\ scrollSteps.wheels <= Max(2, cfg.maxScrollsPerPage)
        /\ openI <= Max(0, cfg.maxProductOpensPerQuery)
        /\ pc \in OpenPcs => openI < Max(0, cfg.maxProductOpensPerQuery)
        /\ pc = "returned" => last.op = "pageClose")
  /\ <>(pc = "returned")

\* C19 witness: the session returned after its whole budget of queries, the
\* session page closed.
C19_Witness ==
  /\ pc = "returned"
  /\ i = MaxQueriesCfg
  /\ err = "none"
  /\ SessionPage \notin Range(pages)

\* C20: the scroll-step count of a page is in [2, max(2, maxScrollsPerPage)]
\* and a page whose scrolling completes has had exactly that many wheel
\* events and pauses; each step is one wheel event with horizontal delta 0
\* and vertical delta in [320, 980], followed, when it resolves, by one pause
\* in [250, 900] ms; the product-open count of a page is in
\* [0, max(0, maxProductOpensPerQuery)].
C20_ScrollAndOpenRanges ==
  /\ pc \in {"wheel", "scrollJitter"} \cup AfterScrollPcs =>
       scrolls \in 2 .. Max(2, cfg.maxScrollsPerPage)
  /\ scrollSteps.pauses <= scrollSteps.wheels
  /\ scrollSteps.wheels <= scrollSteps.pauses + 1
  /\ scrollSteps.wheels <= scrolls
  /\ pc = "wheel" => scrollSteps.wheels = scrollSteps.pauses
  /\ pc = "scrollJitter" => last.op = "wheel" /\ last.res = "ok"
  /\ pc \in AfterScrollPcs =>
       scrollSteps.wheels = scrolls /\ scrollSteps.pauses = scrolls
  /\ last.op = "wheel" =>
       /\ last.args[1] = 0
       /\ last.args[2] \in 320 .. 980
       /\ scrollSteps.wheels = scrollSteps.pauses + 1
       /\ pc \in {"scrollJitter", "catch"}
  /\ last.op = "scrollJitter" =>
       /\ last.args[1] \in 250 .. 900
       /\ scrollSteps.pauses = scrollSteps.wheels
  /\ pc \in AfterScrollPcs \ {"productOpens"} =>
       /\ productOpens \in 0 .. Max(0, cfg.maxProductOpensPerQuery)
       /\ openI <= productOpens

\* C20 witness: with maxScrollsPerPage 1 a page has had its two scroll steps
\* and no product open is chosen for it.
C20_Witness ==
  /\ cfg.maxScrollsPerPage = 1
  /\ scrollSteps = [wheels |-> 2, pauses |-> 2]
  /\ pc = "nextPageTest"
  /\ productOpens = 0
  /\ last.op = "productOpens"

\* main has ended: it returned, or it rejected into main().catch.
MainEnded == pc \in {"exit", "rejected"}

Returned(fn) == call.fn = fn /\ ret.threw # "none"

\* C11: randomInt(rng, min, max) never throws and returns an integer r with
\* min <= r <= max whenever an integer lies in [min, max], and otherwise the
\* least integer that is at least min; so randomInt(rng, 5, 5) and
\* randomInt(rng, 5, 2) are 5, and jitter with min > max sleeps for that
\* least integer, which is min itself when min is an integer.
C11_RandomIntRange ==
  /\ Returned("randomInt") =>
       /\ ret.threw = "no"
       /\ IF \E r \in -MaxHalf .. MaxHalf : call.min <= 2 * r /\ 2 * r <= call.max
            THEN call.min <= 2 * ret.value /\ 2 * ret.value <= call.max
            ELSE call.min <= 2 * ret.value /\ 2 * (ret.value - 1) < call.min
       /\ call.min = 10 /\ call.max \in {10, 4} => ret.value = 5
  /\ Returned("jitter") /\ call.min > call.max =>
       /\ ret.threw = "no"
       /\ call.min <= 2 * ret.slept /\ 2 * (ret.slept - 1) < call.min
       /\ call.min % 2 = 0 => 2 * ret.slept = call.min

\* C11 witness: randomInt(rng, 5, 2) has returned 5 on a draw other than 0.
C11_Witness ==
  /\ Returned("randomInt")
  /\ call.min = 10 /\ call.max = 4 /\ call.u > 0
  /\ ret.value = 5

\* C12: randomChoice over one element returns that element; over a
\* non-empty collection it reads an index within bounds and returns an
\* element of the collection; over an empty collection it throws its
\* invalid-argument error, having made no rng() call.
C12_RandomChoice ==
  Returned("randomChoice") =>
    IF Len(call.items) = 0
      THEN ret.threw = "Error: randomChoice: empty array" /\ ret.draws = 0
      ELSE /\ ret.threw = "no"
           /\ ret.index \in 0 .. (Len(call.items) - 1)
           /\ ret.value \in Range(call.items)
           /\ Len(call.items) = 1 => ret.value = call.items[1]

\* C12 witness: randomChoice over the empty collection has thrown.
C12_Witness ==
  /\ Returned("randomChoice")
  /\ call.items = <<>>
  /\ ret.threw # "no"

\* C13: two Query Sources built independently from the same seed and the
\* same seed phrases return the same queries in the same order: the n-th
\* nextQuery() result of the one is the n-th result of the other, however
\* their calls are interleaved; and at the same statement of their n-th call
\* the two hold the same values in every local of templateQuery.
C13_SameSeedSameQueries ==
  Len(sources) = 2 =>
    /\ sources[1].seedPhrases = sources[2].seedPhrases
    /\ \A n \in 1 .. Min(Len(sources[1].out), Len(sources[2].out)) :
         sources[1].out[n] = sources[2].out[n]
    /\ Len(sources[1].out) = Len(sources[2].out) /\ sources[1].pc = sources[2].pc =>
         sources[1].v = sources[2].v

\* C13 witness: each of the two Query Sources has returned two queries, the
\* second differing from the first.
C13_Witness ==
  /\ Len(sources) = 2
  /\ Len(sources[1].out) = 2 /\ Len(sources[2].out) = 2
  /\ sources[1].out[1] # sources[1].out[2]

\* C14: every query a Query Source returns is non-empty, begins and ends
\* with a piece that is not white space, and has no two white-space
\* characters in a row, whichever pattern was chosen, whichever optional
\* components are absent and whether or not a qualifier or number is added.
C14_QueryWellFormed ==
  \A k \in DOMAIN sources :
    \A n \in 1 .. Len(sources[k].out) :
      LET q == sources[k].out[n] IN
        /\ q # <<>>
        /\ ~IsSpace(q[1]) /\ ~IsSpace(q[Len(q)])
        /\ \A m \in 1 .. (Len(q) - 1) : ~(IsSpace(q[m]) /\ IsSpace(q[m + 1]))

\* C14 witness: a query was returned that begins with a seed phrase read
\* from a line with white space around and inside it, and ends with an
\* added number.
C14_Witness ==
  /\ Len(sources) = 1
  /\ Len(sources[1].out) = 1
  /\ SubSeq(sources[1].out[1], 1, 5) = <<"red", " ", "shoes", " ", "sale">>
  /\ sources[1].out[1][Len(sources[1].out[1])] = "2"

\* The caller of openRandomProduct has it back: dwell, return step, jitter.
CallerPcs == {"dwell", "returnFromProduct", "bringToFront", "returnJitter", "nextPageTest"}

\* Both waits exist.
BothArmed == waits.popup # "unarmed" /\ waits.nav # "unarmed"

\* C21 as amended: the click is issued with both waits armed; openRandomProduct
\* hands control back (and goes to popup.waitForLoadState) only with the click
\* settled and each wait resolved or timed out; popup is the new tab exactly
\* when the popup wait resolved; an event the click triggers resolves its wait
\* if that wait is still pending, and goes unobserved only by a wait that had
\* timed out before it came.
C21_ArmedBeforeClickSettledAtReturn ==
  /\ waits.click # "none" => BothArmed
  /\ pc \in CallerPcs \cup {"waitForLoadState"} =>
       /\ waits.click \in {"ok", "fail"}
       /\ waits.popup \in {"resolved", "timedout"}
       /\ waits.nav \in {"resolved", "timedout"}
  /\ pc \in {"awaitNav", "waitForLoadState"} =>
       (popup = "popup" <=> waits.popup = "resolved")
  /\ \A which \in waits.missed : waits[which] = "timedout"
  /\ waits.popup = "resolved" => "popup" \in Range(pages) \/ pc \in CallerPcs
  /\ waits.click = "fail" => waits.effect = "none" /\ waits.missed = {}

\* C21 as claimed: the same, and no tab or navigation the click triggers is
\* ever missed by its wait.
C21_NoEventMissed ==
  /\ C21_ArmedBeforeClickSettledAtReturn
  /\ waits.missed = {}

\* C21 witness: openRandomProduct has returned to the dwell with the new tab
\* caught by the popup wait and the navigation wait timed out.
C21_Witness ==
  /\ pc = "dwell"
  /\ waits.popup = "resolved" /\ waits.nav = "timedout"
  /\ waits.click = "ok"
  /\ pages[Len(pages)] = "popup"

\* jitter(rng, min, max) sleeps for a time within [min, max], whatever rng() returns.
SleepsWithin(min, max) == \A u \in Draws : randomInt(u, min, max) \in min .. max

\* C22: once productLinks.count() has counted a candidate link,
\* openRandomProduct goes on to the click and the waits and returns true
\* whatever they yield, a rejected click with neither a new tab nor a
\* navigation included; the caller then sleeps for the dwell of
\* jitter(rng, minDwellMs, maxDwellMs), makes the return step (page.goBack, or
\* the close of the newest page, which is not the session's), sleeps for
\* jitter(rng, 500, 2000) and counts the open against productOpens.
C22_OpenedWhateverTheClickDid ==
  [][/\ pc = "count" /\ last'.res # "0" => pc' = "scrollIntoView"
     /\ pc = "scrollIntoView" => pc' = "openJitter"
     /\ pc = "openJitter" => pc' = "click"
     /\ pc = "click" => pc' = "awaitWaits"
     /\ pc = "awaitWaits" =>
          /\ pc' \in {"waitForLoadState", "dwell"}
          /\ clicked \in {"fail", "nothing"} =>
               pc' = "dwell" /\ last'.failed = {"waitForEvent", "waitForNavigation"}
     /\ pc = "waitForLoadState" => pc' = "dwell"
     /\ pc = "dwell" =>
          /\ pc' = "returnFromProduct"
          /\ last'.op = "dwell"
          /\ last'.args = <<cfg.minDwellMs, cfg.maxDwellMs>>
          /\ SleepsWithin(last'.args[1], last'.args[2])
     /\ pc = "returnFromProduct" =>
          \/ last'.op = "goBack" /\ pc' = "returnJitter"
          \/ /\ last'.op = "close" /\ pc' = "bringToFront"
             /\ Len(pages) > 1 /\ pages[Len(pages)] # SessionPage
     /\ pc = "bringToFront" => pc' = "returnJitter"
     /\ pc = "returnJitter" =>
          /\ last'.op = "jitter" /\ last'.args = <<500, 2000>>
          /\ SleepsWithin(500, 2000)
          /\ openI' = openI + 1 /\ productOpens' = productOpens
          /\ pc' = IF openI' < productOpens THEN "isBlockedPre" ELSE "nextPageTest"]_vars

\* C22 witness: openRandomProduct has returned true to the dwell after a
\* rejected click and two timed-out waits, with product opens still to come.
C22_Witness ==
  /\ pc = "dwell"
  /\ clicked = "fail"
  /\ last.op = "awaitWaits" /\ last.failed = {"waitForEvent", "waitForNavigation"}
  /\ openI + 1 < productOpens

\* The pages of the context that are the session's own page.
SessionPages(ps) == {n \in 1 .. Len(ps) : ps[n] = SessionPage}

\* C23: a call of returnFromProduct closes at most one page, the newest, and
\* never the session's own page, whatever pages the context holds; the
\* session's page leaves the context in one step only, page.close() at the
\* end of runShoppingSession, which is reached from the end of the query loop
\* (its test failing, or the break of the catch) and made once.
C23_SessionPageClosedOnlyAtEnd ==
  [][/\ pc = "returnFromProduct" =>
          \/ pages' = pages
          \/ /\ last'.op = "close" /\ last'.res = "ok"
             /\ pages[Len(pages)] # SessionPage
             /\ pages' = SubSeq(pages, 1, Len(pages) - 1)
     /\ pc = "bringToFront" => pages' = pages
     /\ SessionPages(pages') # SessionPages(pages) =>
          \/ pc = "newPage" /\ pages' = Append(pages, SessionPage)
          \/ /\ pc = "pageClose" /\ pc' = "returned"
             /\ last'.op = "pageClose" /\ last'.res = "ok"
             /\ SessionPages(pages') = {}
     /\ pc' = "pageClose" =>
          \/ pc = "catch"
          \/ pc \in {"newPage", "betweenQueries"} /\ ~(i' < cfg.maxQueries)
     /\ last'.op = "pageClose" => pc = "pageClose" /\ pc' = "returned"
     /\ pc # "returned"]_vars

\* C23 witness: the return step has closed the tab the click opened and the
\* session's page is the one page left.
C23_Witness ==
  /\ pc = "bringToFront"
  /\ last.op = "close" /\ last.res = "ok"
  /\ pages = <<SessionPage>>

\* Both sessions have left the loop.
BothEnded == \A k \in DOMAIN sources : sources[k].at = "ended" /\ sources[k].pc = "idle"

\* C24: two sessions started with the same seed, configuration and seed
\* phrases that get identical browser responses emit identical sequences of
\* query texts (and have left the generator in the same state at the end); the
\* first query of a session is the same whatever the browser responds.
C24_JointReplayAndFirstQuery ==
  /\ sources[1].seedPhrases = sources[2].seedPhrases
  /\ sources[1].out # <<>> /\ sources[2].out # <<>> => sources[1].out[1] = sources[2].out[1]
  /\ sources[1].resp = sources[2].resp =>
       /\ \A n \in 1 .. Min(Len(sources[1].out), Len(sources[2].out)) :
            sources[1].out[n] = sources[2].out[n]
       /\ BothEnded => sources[1].out = sources[2].out /\ rngs[1] = rngs[2]

\* C24 witness: both sessions, given the same responses, have come to the end
\* of the loop having browsed every query and emitted the same queries, the
\* second differing from the first.
C24_Witness ==
  /\ sources[1].resp = sources[2].resp /\ ~sources[1].resp.blocked
  /\ BothEnded
  /\ \A k \in DOMAIN sources : Len(sources[k].out) = MaxGenQueries
  /\ sources[1].out = sources[2].out
  /\ sources[1].out[2] # sources[1].out[1]

\* Two sessions from the same seed whose browsers responded differently have
\* emitted different second queries: replay is not deterministic in the seed
\* alone.
C24_ResponsesSteerLaterQueries ==
  /\ sources[1].resp # sources[2].resp
  /\ Len(sources[1].out) >= 2 /\ Len(sources[2].out) >= 2
  /\ sources[1].out[2] # sources[2].out[2]

\* The session-shape option of field f is not on the command line.
Omitted(f) == Get(parseArgs(argv), <<OptionOf[f]>>).kind = "undefined"

\* C16: a session-shape option omitted on the command line leaves its field
\* of the Run Configuration at the default the usage text documents.
C16_OmittedOptionsGetUsageDefaults ==
  pc = "configured" =>
    \A f \in DOMAIN usageDefaults : Omitted(f) => cfg[f] = usageDefaults[f]

\* C17: in the Run Configuration handed to the session loop every duration
\* field and every max-count field is a non-negative integer.
C17_ConfigFieldsNonNegative ==
  pc = "configured" => \A f \in DOMAIN OptionOf : cfg[f] \in Nat

====
